---------------------------- MODULE Spec2Model ----------------------------
(***************************************************************************)
(* A model of the vault-kube-cloud-credentials operator: the key codec,    *)
(* the admission check of the Role-ARN backend, the event filter, the      *)
(* Reconcile handler and the start-up garbage-collection sweep of          *)
(* backendReconciler (src/operator/backend.go), run against a secret store *)
(* (Vault) and an orchestrator (Kubernetes) that change underneath them.   *)
(*                                                                         *)
(* Strings are sequences of one-character strings, so that splitting,      *)
(* joining and prefix tests are computed as the code computes them.        *)
(***************************************************************************)
EXTENDS Integers, Sequences, FiniteSets, TLC

----------------------------------------------------------------------------
(* Bounds of the model *)

\* longest namespace / identity name drawn for the codec specification
MaxLen == 2
\* orchestrator changes (create, update, delete, generic event) in one run
MaxChanges == 2
\* failures injected into store / orchestrator calls in one run
MaxFailures == 1
\* the random values drawn for the renewal jitter: k / JitterSteps, k < JitterSteps
JitterSteps == 8
\* longest lease, in nanoseconds, drawn besides the lease of one hour
MaxLease == 8

----------------------------------------------------------------------------
(* Strings *)

Sep == "_"

\* strings.Contains(s, c) for a one-character c
Contains(s, c) == \E i \in 1..Len(s) : s[i] = c

\* index of the first occurrence of c in s (0 when absent)
IndexOf(s, c) ==
  IF Contains(s, c)
  THEN CHOOSE i \in 1..Len(s) : s[i] = c /\ \A j \in 1..(i-1) : s[j] # c
  ELSE 0

\* strings.Split(s, d): the segments between the occurrences of d
RECURSIVE Split(_, _)
Split(s, d) ==
  IF Contains(s, d)
  THEN <<SubSeq(s, 1, IndexOf(s, d) - 1)>>
         \o Split(SubSeq(s, IndexOf(s, d) + 1, Len(s)), d)
  ELSE <<s>>

\* strings.SplitN(s, d, n) for n > 0: at most n segments, the last one unsplit
RECURSIVE SplitN(_, _, _)
SplitN(s, d, n) ==
  IF n > 1 /\ Contains(s, d)
  THEN <<SubSeq(s, 1, IndexOf(s, d) - 1)>>
         \o SplitN(SubSeq(s, IndexOf(s, d) + 1, Len(s)), d, n - 1)
  ELSE <<s>>

HasPrefix(s, p) == Len(s) >= Len(p) /\ SubSeq(s, 1, Len(p)) = p

TrimPrefix(s, p) == IF HasPrefix(s, p) THEN SubSeq(s, Len(p) + 1, Len(s)) ELSE s

\* all strings over alphabet A of length at most n
StringsUpTo(A, n) == UNION {[1..k -> A] : k \in 0..n}

----------------------------------------------------------------------------
(* Key codec: backendReconciler.makeKey / parseKey.  A reconciler r is the *)
(* record [prefix, backend] of the two fields the codec reads.             *)

makeKey_swapped(r, namespace, name) ==
  r.prefix \o <<Sep>> \o r.backend \o <<Sep>> \o name \o <<Sep>> \o namespace

makeKey_otherBackend(r, namespace, name) ==
  r.prefix \o <<Sep>> \o (IF r.backend = <<"a", "w", "s">> THEN <<"g", "c", "p">>
                          ELSE <<"a", "w", "s">>)
           \o <<Sep>> \o namespace \o <<Sep>> \o name

makeKey(r, namespace, name) ==
  r.prefix \o <<Sep>> \o r.backend \o <<Sep>> \o namespace \o <<Sep>> \o name

NotParsed == [namespace |-> <<>>, name |-> <<>>, parsed |-> FALSE]

parseKey_anyBackend(r, key) ==
  LET keyParts == Split(key, Sep)
  IN  IF Len(keyParts) = 4 /\ keyParts[1] = r.prefix
      THEN [namespace |-> keyParts[3], name |-> keyParts[4], parsed |-> TRUE]
      ELSE NotParsed

parseKey(r, key) ==
  LET keyParts == Split(key, Sep)
  IN  IF Len(keyParts) = 4 /\ keyParts[1] = r.prefix /\ keyParts[2] = r.backend
      THEN [namespace |-> keyParts[3], name |-> keyParts[4], parsed |-> TRUE]
      ELSE NotParsed

----------------------------------------------------------------------------
(* Pattern matching: filepath.Match as the rules use it.  The patterns of  *)
(* the model are built from literal characters, '*' and '?'; a '[' that is *)
(* never closed is the malformed pattern (filepath.ErrBadPattern).         *)

PathSeparator == "/"

RECURSIVE GlobMatch_prefix(_, _)
GlobMatch_prefix(p, s) ==
  IF p = <<>> THEN TRUE
  ELSE IF Head(p) = "*"
       THEN GlobMatch_prefix(Tail(p), s)
            \/ (s # <<>> /\ Head(s) # PathSeparator /\ GlobMatch_prefix(p, Tail(s)))
  ELSE IF Head(p) = "?"
       THEN s # <<>> /\ Head(s) # PathSeparator /\ GlobMatch_prefix(Tail(p), Tail(s))
  ELSE s # <<>> /\ Head(s) = Head(p) /\ GlobMatch_prefix(Tail(p), Tail(s))

\* whether pattern p matches the whole of s
RECURSIVE GlobMatch(_, _)
GlobMatch(p, s) ==
  IF p = <<>> THEN s = <<>>
  ELSE IF Head(p) = "*"
       THEN GlobMatch(Tail(p), s)
            \/ (s # <<>> /\ Head(s) # PathSeparator /\ GlobMatch(p, Tail(s)))
  ELSE IF Head(p) = "?"
       THEN s # <<>> /\ Head(s) # PathSeparator /\ GlobMatch(Tail(p), Tail(s))
  ELSE s # <<>> /\ Head(s) = Head(p) /\ GlobMatch(Tail(p), Tail(s))

BadPattern(p) == Contains(p, "[") /\ ~Contains(p, "]")

\* filepath.Match(pattern, name) -> (matched, err)
filepathMatch(pattern, name) ==
  IF BadPattern(pattern)
  THEN [match |-> FALSE, err |-> TRUE]
  ELSE [match |-> GlobMatch(pattern, name), err |-> FALSE]

RECURSIVE matchesAny_skipError(_, _)
matchesAny_skipError(patterns, s) ==
  IF patterns = <<>> THEN [match |-> FALSE, err |-> FALSE]
  ELSE LET m == filepathMatch(Head(patterns), s)
       IN  IF ~m.err /\ m.match THEN [match |-> TRUE, err |-> FALSE]
           ELSE matchesAny_skipError(Tail(patterns), s)

\* the loop shared by matchesNamespace and matchesRoleName: the first pattern
\* that matches or fails decides
RECURSIVE matchesAny(_, _)
matchesAny(patterns, s) ==
  IF patterns = <<>> THEN [match |-> FALSE, err |-> FALSE]
  ELSE LET m == filepathMatch(Head(patterns), s)
       IN  IF m.err THEN [match |-> FALSE, err |-> TRUE]
           ELSE IF m.match THEN [match |-> TRUE, err |-> FALSE]
           ELSE matchesAny(Tail(patterns), s)

----------------------------------------------------------------------------
(* The Role-ARN backend: arn.Parse, AWSRule, AWSRules, awsBackend          *)

awsRoleAnnotation == "vault.uw.systems/aws-role"

arnPrefix == <<"a", "r", "n", ":">>
arnSections == 6

\* arn.Parse of the AWS SDK: the prefix "arn:" and exactly six ':' sections,
\* the sixth keeping any further ':'
arnParse(roleArn) ==
  LET sections == SplitN(roleArn, ":", arnSections)
  IN  IF ~HasPrefix(roleArn, arnPrefix) \/ Len(sections) # arnSections
      THEN [err |-> TRUE, AccountID |-> <<>>, Resource |-> <<>>]
      ELSE [err |-> FALSE, AccountID |-> sections[5], Resource |-> sections[6]]

matchesAccountID_listed(ar, accountID) ==
  \E i \in 1..Len(ar.AccountIDs) : ar.AccountIDs[i] = accountID

matchesAccountID(ar, accountID) ==
  (\E i \in 1..Len(ar.AccountIDs) : ar.AccountIDs[i] = accountID)
  \/ Len(ar.AccountIDs) = 0

matchesNamespace(ar, namespace) == matchesAny(ar.NamespacePatterns, namespace)

matchesRoleName(ar, roleName) == matchesAny(ar.RoleNamePatterns, roleName)

rolePrefix == <<"r", "o", "l", "e", "/">>

\* AWSRule.allows -> (allowed, err)
awsRuleAllows_anyKind(ar, namespace, a) ==
  LET accountIDAllowed == matchesAccountID(ar, a.AccountID)
      namespaceAllowed == matchesNamespace(ar, namespace)
      roleAllowed == IF Contains(a.Resource, PathSeparator)
                     THEN matchesRoleName(ar, SubSeq(a.Resource,
                                                     IndexOf(a.Resource, PathSeparator) + 1,
                                                     Len(a.Resource)))
                     ELSE [match |-> FALSE, err |-> FALSE]
  IN  IF namespaceAllowed.err THEN [allowed |-> FALSE, err |-> TRUE]
      ELSE IF roleAllowed.err THEN [allowed |-> FALSE, err |-> TRUE]
      ELSE [allowed |-> accountIDAllowed /\ namespaceAllowed.match /\ roleAllowed.match,
            err |-> FALSE]

awsRuleAllows(ar, namespace, a) ==
  LET accountIDAllowed == matchesAccountID(ar, a.AccountID)
      namespaceAllowed == matchesNamespace(ar, namespace)
      roleAllowed == IF HasPrefix(a.Resource, rolePrefix)
                     THEN matchesRoleName(ar, TrimPrefix(a.Resource, rolePrefix))
                     ELSE [match |-> FALSE, err |-> FALSE]
  IN  IF namespaceAllowed.err THEN [allowed |-> FALSE, err |-> TRUE]
      ELSE IF roleAllowed.err THEN [allowed |-> FALSE, err |-> TRUE]
      ELSE [allowed |-> accountIDAllowed /\ namespaceAllowed.match /\ roleAllowed.match,
            err |-> FALSE]

RECURSIVE awsRulesLoop_denyEmpty(_, _, _, _)
awsRulesLoop_denyEmpty(rules, all, namespace, a) ==
  IF rules = <<>> THEN [allowed |-> FALSE, err |-> FALSE]
  ELSE LET r == awsRuleAllows(Head(rules), namespace, a)
       IN  IF r.err THEN [allowed |-> FALSE, err |-> TRUE]
           ELSE IF r.allowed THEN [allowed |-> TRUE, err |-> FALSE]
           ELSE awsRulesLoop_denyEmpty(Tail(rules), all, namespace, a)

RECURSIVE awsRulesLoop(_, _, _, _)
awsRulesLoop(rules, all, namespace, a) ==
  IF rules = <<>> THEN [allowed |-> Len(all) = 0, err |-> FALSE]
  ELSE LET r == awsRuleAllows(Head(rules), namespace, a)
       IN  IF r.err THEN [allowed |-> FALSE, err |-> TRUE]
           ELSE IF r.allowed THEN [allowed |-> TRUE, err |-> FALSE]
           ELSE awsRulesLoop(Tail(rules), all, namespace, a)

\* AWSRules.allow -> (allowed, err)
awsRulesAllow(rules, namespace, roleArn) ==
  LET a == arnParse(roleArn)
  IN  IF a.err THEN [allowed |-> FALSE, err |-> TRUE]
      ELSE awsRulesLoop(rules, rules, namespace, a)

\* annotations[k] of a Go map[string]string: "" for a missing key
Lookup(annotations, k) ==
  IF k \in DOMAIN annotations THEN annotations[k] ELSE <<>>

admitEvent_openOnError(b, namespace, name, annotations) ==
  LET roleArn == Lookup(annotations, awsRoleAnnotation)
  IN  IF roleArn # <<>>
      THEN LET res == awsRulesAllow(b.rules, namespace, roleArn)
           IN  res.err \/ res.allowed
      ELSE FALSE

\* awsBackend.admitEvent; b is the backend record [name, path, rules]
admitEvent(b, namespace, name, annotations) ==
  LET roleArn == Lookup(annotations, awsRoleAnnotation)
  IN  IF roleArn # <<>>
      THEN LET res == awsRulesAllow(b.rules, namespace, roleArn)
           IN  ~res.err /\ res.allowed
      ELSE FALSE

----------------------------------------------------------------------------
(* The Project-Binding backend: gcpRule, gcpRules, gcpBackend.admitEvent.  *)
(* The text of the bindings annotation is given by what yaml.Unmarshal     *)
(* makes of it: a document that is no mapping, or a mapping whose entries  *)
(* are [resource, roles], roles being a list of so many roles or a value   *)
(* that is no list.                                                        *)

gcpProjectAnnotation == "vault.uw.systems/gcp-project"
gcpBindingsAnnotation == "vault.uw.systems/gcp-bindings"

\* the empty text: what a missing annotation reads as
EmptyDoc == [mapping |-> TRUE, entries |-> <<>>]
NotMapping == [mapping |-> FALSE, entries |-> <<>>]
Mapping(entries) == [mapping |-> TRUE, entries |-> entries]
\* an item of a role list: a string, or a value of another type
StringRole(v) == [str |-> TRUE, val |-> v]
NonStringRole == [str |-> FALSE, val |-> <<>>]
RoleList(items) == [list |-> TRUE, items |-> items]
NoList == [list |-> FALSE, items |-> <<>>]

\* the i-th resource identifier of a mapping: r followed by i marks
Resource(i) == <<"r">> \o [j \in 1..i |-> "i"]

\* the mapping that gives its i-th resource the i-th of the role values
Keyed(values) ==
  [i \in 1..Len(values) |-> [resource |-> Resource(i), roles |-> values[i]]]

newGCPBindingsFromYAML_anyRoles(data) ==
  IF ~data.mapping THEN [err |-> TRUE, bindings |-> <<>>]
  ELSE IF Len(data.entries) = 0 THEN [err |-> TRUE, bindings |-> data.entries]
  ELSE [err |-> FALSE, bindings |-> data.entries]

\* newGCPBindingsFromYAML -> (bindings, err)
newGCPBindingsFromYAML(data) ==
  IF ~data.mapping THEN [err |-> TRUE, bindings |-> <<>>]
  ELSE IF Len(data.entries) = 0 THEN [err |-> TRUE, bindings |-> data.entries]
  ELSE IF \E i \in 1..Len(data.entries) :
            ~data.entries[i].roles.list \/ Len(data.entries[i].roles.items) = 0
       THEN [err |-> TRUE, bindings |-> data.entries]
  ELSE [err |-> FALSE, bindings |-> data.entries]

RECURSIVE JoinRoles(_)
\* strings.Join(rawRoles, `", "`)
JoinRoles(rawRoles) ==
  IF rawRoles = <<>> THEN <<>>
  ELSE IF Len(rawRoles) = 1 THEN rawRoles[1]
  ELSE rawRoles[1] \o <<"\"", ",", " ", "\"">> \o JoinRoles(Tail(rawRoles))

\* the roles of a list that are strings, in the list's order
RECURSIVE RawRoles(_)
RawRoles(items) ==
  IF items = <<>> THEN <<>>
  ELSE IF Head(items).str THEN <<Head(items).val>> \o RawRoles(Tail(items))
  ELSE RawRoles(Tail(items))

\* renderGCPBinding: resource "<resource>" {\n  roles = ["<role>", "<role>"]\n}\n
renderGCPBinding(resource, items) ==
  <<"r","e","s","o","u","r","c","e"," ","\"">> \o resource \o <<"\""," ","{","\n">>
    \o <<" "," ","r","o","l","e","s"," ","="," ">>
    \o <<"[","\"">> \o JoinRoles(RawRoles(items)) \o <<"\"","]">> \o <<"\n">>
    \o <<"}","\n">>

\* the orders in which a range over a map of n entries may visit them
MapOrders(n) == {o \in [1..n -> 1..n] : \A i, j \in 1..n : o[i] = o[j] => i = j}

\* the loop of renderGCPBindings over the entries still to visit, in the
\* order the range over the map takes; i counts the blocks rendered so far
RECURSIVE renderLoop(_, _, _, _)
renderLoop(bindings, order, output, i) ==
  IF order = <<>> THEN output
  ELSE LET e == bindings[Head(order)]
       IN  IF ~e.roles.list THEN renderLoop(bindings, Tail(order), output, i)
           ELSE IF i = 0
                THEN renderLoop(bindings, Tail(order),
                                renderGCPBinding(e.resource, e.roles.items), i + 1)
                ELSE renderLoop(bindings, Tail(order),
                                output \o <<"\n", "\n">>
                                       \o renderGCPBinding(e.resource, e.roles.items), i + 1)

\* renderGCPBindings, the range over the map visiting the entries in order
renderGCPBindings(bindings, order) == renderLoop(bindings, order, <<>>, 0)

gcpTokenScope == "https://www.googleapis.com/auth/cloud-platform"

\* gcpBackend.writeRole: the error, or the data written under <path>/roleset/<key>
gcpWriteRole(annotations, order) ==
  LET parsed == newGCPBindingsFromYAML(
                  IF gcpBindingsAnnotation \in DOMAIN annotations
                  THEN annotations[gcpBindingsAnnotation] ELSE EmptyDoc)
  IN  IF parsed.err THEN [err |-> TRUE, data |-> <<>>]
      ELSE [err |-> FALSE,
            data |-> [secret_type  |-> "access_token",
                      project      |-> IF gcpProjectAnnotation \in DOMAIN annotations
                                       THEN annotations[gcpProjectAnnotation] ELSE <<>>,
                      bindings     |-> renderGCPBindings(parsed.bindings, order),
                      token_scopes |-> <<gcpTokenScope>>]]

gcpMatchesNamespace(gr, namespace) == matchesAny(gr.NamespacePatterns, namespace)

matchesProject_glob(gr, project) ==
  \E i \in 1..Len(gr.Projects) : GlobMatch(gr.Projects[i], project)

\* gcpRule.matchesProject: the project is an entry of Projects
matchesProject(gr, project) ==
  \E i \in 1..Len(gr.Projects) : gr.Projects[i] = project

\* gcpRule.allows -> (allowed, err)
gcpRuleAllows(gr, namespace, project) ==
  LET namespaceAllowed == gcpMatchesNamespace(gr, namespace)
  IN  IF namespaceAllowed.err THEN [allowed |-> FALSE, err |-> TRUE]
      ELSE [allowed |-> namespaceAllowed.match /\ matchesProject(gr, project),
            err |-> FALSE]

RECURSIVE gcpRulesLoop_lastWins(_, _, _, _)
gcpRulesLoop_lastWins(rules, all, namespace, project) ==
  IF rules = <<>> THEN [allowed |-> Len(all) = 0, err |-> FALSE]
  ELSE LET r == gcpRuleAllows(Head(rules), namespace, project)
           rest == gcpRulesLoop_lastWins(Tail(rules), all, namespace, project)
       IN  IF Tail(rules) = <<>> THEN r
           ELSE IF rest.err \/ rest.allowed THEN rest
           ELSE r

RECURSIVE gcpRulesLoop_denyEmpty(_, _, _, _)
gcpRulesLoop_denyEmpty(rules, all, namespace, project) ==
  IF rules = <<>> THEN [allowed |-> FALSE, err |-> FALSE]
  ELSE LET r == gcpRuleAllows(Head(rules), namespace, project)
       IN  IF r.err THEN [allowed |-> FALSE, err |-> TRUE]
           ELSE IF r.allowed THEN [allowed |-> TRUE, err |-> FALSE]
           ELSE gcpRulesLoop_denyEmpty(Tail(rules), all, namespace, project)

\* the loop of gcpRules.allow over the rules still to evaluate; all is the
\* whole list
RECURSIVE gcpRulesLoop(_, _, _, _)
gcpRulesLoop(rules, all, namespace, project) ==
  IF rules = <<>> THEN [allowed |-> Len(all) = 0, err |-> FALSE]
  ELSE LET r == gcpRuleAllows(Head(rules), namespace, project)
       IN  IF r.err THEN [allowed |-> FALSE, err |-> TRUE]
           ELSE IF r.allowed THEN [allowed |-> TRUE, err |-> FALSE]
           ELSE gcpRulesLoop(Tail(rules), all, namespace, project)

\* gcpRules.allow -> (allowed, err)
gcpRulesAllow(rules, namespace, project) ==
  gcpRulesLoop(rules, rules, namespace, project)

\* annotations[gcpBindingsAnnotation]: the empty text for a missing key
LookupDoc(annotations, k) ==
  IF k \in DOMAIN annotations THEN annotations[k] ELSE EmptyDoc

\* gcpBackend.admitEvent; b is the backend record [name, path, rules]
gcpAdmitEvent(b, namespace, name, annotations) ==
  LET project == Lookup(annotations, gcpProjectAnnotation)
      bindings == LookupDoc(annotations, gcpBindingsAnnotation)
  IN  IF project = <<>> THEN FALSE
      ELSE IF newGCPBindingsFromYAML(bindings).err THEN FALSE
      ELSE LET res == gcpRulesAllow(b.rules, namespace, project)
           IN  IF res.err THEN FALSE
               ELSE IF res.allowed THEN TRUE
               ELSE FALSE

----------------------------------------------------------------------------
(* Configuration of the modelled operator: fileConfig defaults and one rule *)

vkcc == <<"v", "k", "c", "c">>
aws == <<"a", "w", "s">>
gcp == <<"g", "c", "p">>

\* namespaces n1, n2 and identity names x, y
n1 == <<"n", "1">>
n2 == <<"n", "2">>
nameX == <<"x">>
nameY == <<"y">>

\* arn:aws:iam::1:role/app (allowed by the rule) and .../adm (denied by it)
arnApp ==
  <<"a","r","n",":","a","w","s",":","i","a","m",":",":","1",":","r","o","l","e","/","a","p","p">>
arnAdm ==
  <<"a","r","n",":","a","w","s",":","i","a","m",":",":","1",":","r","o","l","e","/","a","d","m">>

\* aws.rules of the configuration file: namespaces n*, role app, account 1
awsRules ==
  << [NamespacePatterns |-> << <<"n", "*">> >>,
      RoleNamePatterns  |-> << <<"a", "p", "p">> >>,
      AccountIDs        |-> << <<"1">> >>] >>

\* defaultFileConfig.AWS.DefaultTTL = 15 minutes, written as seconds
defaultTTLSeconds == 15 * 60

\* the awsBackend built by New
backend == [name |-> aws, path |-> aws, rules |-> awsRules]

\* the backendReconciler built by New (the fields the model reads)
reconciler == [prefix |-> vkcc, backend |-> backend.name]

Ids == {<<n1, nameX>>, <<n2, nameY>>}

\* the identities the orchestrator creates, updates and deletes in a run; the
\* others are never present, so that what the store holds under their keys is
\* orphaned
Live == {<<n1, nameX>>}

Key(id) == makeKey(reconciler, id[1], id[2])

\* objects of the store that this reconciler does not own
keyOtherBackend == makeKey([prefix |-> vkcc, backend |-> gcp], n1, nameX)
keyOtherPrefix == makeKey([prefix |-> <<"o">>, backend |-> aws], n1, nameX)
keyFiveParts == makeKey(reconciler, n1, nameX) \o <<Sep, "z">>
keyDefault == <<"d", "e", "f", "a", "u", "l", "t">>

OwnedKeys == {Key(id) : id \in Ids}
ForeignKeys == {keyOtherBackend, keyOtherPrefix, keyFiveParts, keyDefault}
AllKeys == OwnedKeys \cup ForeignKeys

\* the order in which the store lists names (lexicographic)
KeyList ==
  <<keyDefault, keyOtherPrefix, Key(<<n1, nameX>>), keyFiveParts,
    Key(<<n2, nameY>>), keyOtherBackend>>

Kinds == {"policy", "login", "role"}

----------------------------------------------------------------------------
(* Store objects *)

Nil == [present |-> FALSE]
Obj(d) == [present |-> TRUE, data |-> d]
Foreign == Obj([foreign |-> TRUE])

capsAll == {"create", "read", "update", "delete", "list"}

renderPolicy_allRoles(b, name) ==
  << [path |-> b.path \o <<"/","c","r","e","d","s","/">> \o <<"*">>, capabilities |-> capsAll],
     [path |-> b.path \o <<"/","s","t","s","/">> \o name, capabilities |-> capsAll] >>

\* awsBackend.renderPolicy: awsPolicyTemplate with Path and Name filled in
renderPolicy(b, name) ==
  << [path |-> b.path \o <<"/","c","r","e","d","s","/">> \o name, capabilities |-> capsAll],
     [path |-> b.path \o <<"/","s","t","s","/">> \o name, capabilities |-> capsAll] >>

\* gcpBackend.renderPolicy: gcpPolicyTemplate with Path and Name filled in
gcpRenderPolicy(b, name) ==
  << [path |-> b.path \o <<"/","t","o","k","e","n","/">> \o name, capabilities |-> capsAll],
     [path |-> b.path \o <<"/","k","e","y","/">> \o name, capabilities |-> capsAll],
     [path |-> b.path \o <<"/","r","o","l","e","s","e","t","/">> \o name,
      capabilities |-> {"read"}] >>

loginTTL == 900

\* the data written under sys/policy/<key>
policyData(b, key) == [policy |-> renderPolicy(b, key)]

loginData_anyNamespace(key, namespace, name) ==
  [bound_service_account_names      |-> <<name>>,
   bound_service_account_namespaces |-> << <<"*">> >>,
   policies                         |-> <<keyDefault, key>>,
   ttl                              |-> loginTTL]

\* the data written under auth/<kubernetesAuthBackend>/role/<key>
loginData(key, namespace, name) ==
  [bound_service_account_names      |-> <<name>>,
   bound_service_account_namespaces |-> <<namespace>>,
   policies                         |-> <<keyDefault, key>>,
   ttl                              |-> loginTTL]

\* awsBackend.writeRole: the data written under <path>/roles/<key>
roleData_twoArns(annotations) ==
  [default_sts_ttl |-> defaultTTLSeconds,
   role_arns       |-> <<Lookup(annotations, awsRoleAnnotation),
                         Lookup(annotations, awsRoleAnnotation)>>,
   credential_type |-> "assumed_role"]

roleData(annotations) ==
  [default_sts_ttl |-> defaultTTLSeconds,
   role_arns       |-> <<Lookup(annotations, awsRoleAnnotation)>>,
   credential_type |-> "assumed_role"]

----------------------------------------------------------------------------
(* Orchestrator objects: a service account is absent, or present with its  *)
(* annotation map                                                          *)

NoAnnotations == <<>>
AnnApp == awsRoleAnnotation :> arnApp
AnnAdm == awsRoleAnnotation :> arnAdm
Annotations == {NoAnnotations, AnnApp, AnnAdm}

Absent == [exists |-> FALSE, annotations |-> NoAnnotations]
Present(a) == [exists |-> TRUE, annotations |-> a]

\* a live service account that the backend admits
Admitted(id, s) == s.exists /\ admitEvent(backend, id[1], id[2], s.annotations)

----------------------------------------------------------------------------
(* State *)

VARIABLES
  sa,       \* orchestrator: identity -> service account object
  queue,    \* work queue of the controller: identities awaiting Reconcile
  store,    \* secret store: kind -> name -> object
  rec,      \* the Reconcile worker
  gc,       \* the Start runnable (garbage-collection sweep)
  changes,  \* orchestrator changes so far
  fails,    \* failures injected so far
  codec,    \* the key codec exercised on drawn inputs
  boot,     \* the operator's start-up: configuration loading and New
  sidecar,  \* the sidecar's start-up: flags, token claims, role names
  eval      \* a backend's admission exercised on drawn rules and events

vars == <<sa, queue, store, rec, gc, changes, fails, codec, boot, sidecar, eval>>

----------------------------------------------------------------------------
(* Event filter: the predicate.Funcs of SetupWithManager.  An event is     *)
(* [type, id, old, new]; create, delete and generic events carry their     *)
(* object in new.                                                          *)

eventFilter_newOnly(b, e) ==
  admitEvent(b, e.id[1], e.id[2], e.new.annotations)

eventFilter(b, e) ==
  IF e.type = "update"
  THEN admitEvent(b, e.id[1], e.id[2], e.old.annotations)
       \/ admitEvent(b, e.id[1], e.id[2], e.new.annotations)
  ELSE admitEvent(b, e.id[1], e.id[2], e.new.annotations)

\* the controller's handler: an event that passes the filter enqueues its identity
Enqueue(q, e) == IF eventFilter(backend, e) THEN q \cup {e.id} ELSE q

----------------------------------------------------------------------------
(* Orchestrator actions *)

CreateSA(id, a) ==
  /\ changes < MaxChanges
  /\ ~sa[id].exists
  /\ sa' = [sa EXCEPT ![id] = Present(a)]
  /\ queue' = Enqueue(queue, [type |-> "create", id |-> id, old |-> Absent, new |-> Present(a)])
  /\ changes' = changes + 1
  /\ UNCHANGED <<store, rec, gc, fails, codec, boot, sidecar, eval>>

UpdateSA(id, a) ==
  /\ changes < MaxChanges
  /\ sa[id].exists
  /\ sa[id].annotations # a
  /\ sa' = [sa EXCEPT ![id] = Present(a)]
  /\ queue' = Enqueue(queue, [type |-> "update", id |-> id, old |-> sa[id], new |-> Present(a)])
  /\ changes' = changes + 1
  /\ UNCHANGED <<store, rec, gc, fails, codec, boot, sidecar, eval>>

\* the delete event carries the last state of the deleted object
DeleteSA(id) ==
  /\ changes < MaxChanges
  /\ sa[id].exists
  /\ sa' = [sa EXCEPT ![id] = Absent]
  /\ queue' = Enqueue(queue, [type |-> "delete", id |-> id, old |-> sa[id], new |-> sa[id]])
  /\ changes' = changes + 1
  /\ UNCHANGED <<store, rec, gc, fails, codec, boot, sidecar, eval>>

GenericEvent(id) ==
  /\ changes < MaxChanges
  /\ sa[id].exists
  /\ queue' = Enqueue(queue, [type |-> "generic", id |-> id, old |-> sa[id], new |-> sa[id]])
  /\ changes' = changes + 1
  /\ UNCHANGED <<sa, store, rec, gc, fails, codec, boot, sidecar, eval>>

----------------------------------------------------------------------------
(* Store calls shared by Reconcile and the sweep *)

Put(st, kind, key, d) == [st EXCEPT ![kind][key] = Obj(d)]
Del_failOnAbsent(st, kind, key) ==
  IF st[kind][key].present THEN [st EXCEPT ![kind][key] = Nil]
  ELSE [st EXCEPT ![kind][key] = Obj([error |-> "not found"])]
Del(st, kind, key) == [st EXCEPT ![kind][key] = Nil]

Call(op, ok) == [op |-> op, ok |-> ok]

removeCall_policyFirst(step) ==
  CASE step = 1 -> "policy" [] step = 2 -> "login" [] OTHER -> "role"

\* removeFromVault: the kind deleted by its 1st, 2nd and 3rd store call
removeCall(step) ==
  CASE step = 1 -> "role" [] step = 2 -> "login" [] OTHER -> "policy"

writeCall_roleFirst(step) ==
  CASE step = 1 -> "role" [] step = 2 -> "login" [] OTHER -> "policy"

\* writeToVault: the kind written by its 1st, 2nd and 3rd store call
writeCall(step) ==
  CASE step = 1 -> "policy" [] step = 2 -> "login" [] OTHER -> "role"

\* the data writeToVault writes for a kind
writeData(kind, namespace, name, annotations) ==
  LET key == makeKey(reconciler, namespace, name)
  IN  CASE kind = "policy" -> policyData(backend, key)
        [] kind = "login"  -> loginData(key, namespace, name)
        [] OTHER           -> roleData(annotations)

\* the presence of the three objects of a key
Triple(st, key) == {k \in Kinds : st[k][key].present}

----------------------------------------------------------------------------
(* Reconcile.  One action per blocking call: the lookup of the service     *)
(* account, then each store call of removeFromVault or writeToVault.  rec  *)
(* keeps the request, what the lookup returned, the store calls issued by  *)
(* the attempt (calls) and how the attempt returned (ret).                 *)

RecIdle ==
  [pc |-> "idle", step |-> 0, req |-> <<>>, found |-> FALSE,
   annotations |-> NoAnnotations, admitted |-> FALSE, calls |-> <<>>,
   ret |-> "none", path |-> "none", start |-> {}]

reconcilePath_keepUnadmitted(found, admitted) ==
  IF ~found THEN "remove" ELSE "write"

\* Reconcile's choice after the lookup: not found or not admitted removes
reconcilePath(found, admitted) ==
  IF ~found THEN "remove"
  ELSE IF ~admitted THEN "remove"
  ELSE "write"

removeAfter_ignoreError(step, ok) ==
  IF step = 3 THEN "nil" ELSE "next"

\* removeFromVault after a store call: an error returns at once
removeAfter(step, ok) ==
  IF ~ok THEN "err" ELSE IF step = 3 THEN "nil" ELSE "next"

writeAfter_ignoreError(step, ok) ==
  IF step = 3 THEN "nil" ELSE "next"

\* writeToVault after renderPolicy (step 0) or a store call: an error returns at once
writeAfter(step, ok) ==
  IF ~ok THEN "err" ELSE IF step = 3 THEN "nil" ELSE "next"

\* the worker after Reconcile returned: an error re-queues the request
Returned(r, how) == [RecIdle EXCEPT !.ret = how, !.path = r.pc]
Requeue(q, r, how) == IF how = "err" THEN q \cup {r.req} ELSE q

RecStartFail_asNotFound(id) ==
  /\ rec.pc = "idle"
  /\ id \in queue
  /\ fails < MaxFailures
  /\ queue' = queue \ {id}
  /\ rec' = [pc |-> "remove", step |-> 1, req |-> id, found |-> FALSE,
              annotations |-> NoAnnotations, admitted |-> FALSE, calls |-> <<>>,
              ret |-> "none", path |-> "none", start |-> Triple(store, Key(id))]
  /\ fails' = fails + 1
  /\ UNCHANGED <<sa, store, gc, changes, codec, boot, sidecar, eval>>

\* ReadEnvironment or the lookup fails: Reconcile returns the error
RecStartFail(id) ==
  /\ rec.pc = "idle"
  /\ id \in queue
  /\ fails < MaxFailures
  /\ rec' = [RecIdle EXCEPT !.ret = "err", !.path = "lookup"]
  /\ fails' = fails + 1
  /\ UNCHANGED <<sa, queue, store, gc, changes, codec, boot, sidecar, eval>>

\* the lookup answers: found with its annotations, or not found
RecStart(id) ==
  /\ rec.pc = "idle"
  /\ id \in queue
  /\ queue' = queue \ {id}
  /\ LET found == sa[id].exists
         annotations == sa[id].annotations
         admitted == found /\ admitEvent(backend, id[1], id[2], annotations)
     IN  rec' = [pc |-> reconcilePath(found, admitted), step |-> 1, req |-> id,
                 found |-> found, annotations |-> annotations,
                 admitted |-> admitted, calls |-> <<>>, ret |-> "none",
                 path |-> "none", start |-> Triple(store, Key(id))]
  /\ UNCHANGED <<sa, store, gc, changes, fails, codec, boot, sidecar, eval>>

\* one store call of removeFromVault
RecRemove(ok) ==
  /\ rec.pc = "remove"
  /\ ok \/ fails < MaxFailures
  /\ LET kind == removeCall(rec.step)
         key == makeKey(reconciler, rec.req[1], rec.req[2])
         how == removeAfter(rec.step, ok)
         r1 == [rec EXCEPT !.calls = Append(@, Call(kind, ok))]
     IN  /\ store' = IF ok THEN Del(store, kind, key) ELSE store
         /\ rec' = IF how = "next" THEN [r1 EXCEPT !.step = @ + 1]
                   ELSE Returned(r1, how)
         /\ queue' = Requeue(queue, rec, how)
  /\ fails' = IF ok THEN fails ELSE fails + 1
  /\ UNCHANGED <<sa, gc, changes, codec, boot, sidecar, eval>>

\* renderPolicy fails: writeToVault returns before any store call
RecRenderFail ==
  /\ rec.pc = "write"
  /\ rec.step = 1
  /\ fails < MaxFailures
  /\ LET how == writeAfter(0, FALSE)
         r1 == [rec EXCEPT !.calls = Append(@, Call("render", FALSE))]
     IN  /\ rec' = IF how = "next" THEN r1 ELSE Returned(r1, how)
         /\ queue' = Requeue(queue, rec, how)
  /\ fails' = fails + 1
  /\ UNCHANGED <<sa, store, gc, changes, codec, boot, sidecar, eval>>

\* one store call of writeToVault
RecWrite(ok) ==
  /\ rec.pc = "write"
  /\ ok \/ fails < MaxFailures
  /\ LET kind == writeCall(rec.step)
         key == makeKey(reconciler, rec.req[1], rec.req[2])
         how == writeAfter(rec.step, ok)
         r1 == [rec EXCEPT !.calls = Append(@, Call(kind, ok))]
     IN  /\ store' = IF ok
                     THEN Put(store, kind, key,
                              writeData(kind, rec.req[1], rec.req[2], rec.annotations))
                     ELSE store
         /\ rec' = IF how = "next" THEN [r1 EXCEPT !.step = @ + 1]
                   ELSE Returned(r1, how)
         /\ queue' = Requeue(queue, rec, how)
  /\ fails' = IF ok THEN fails ELSE fails + 1
  /\ UNCHANGED <<sa, gc, changes, codec, boot, sidecar, eval>>

----------------------------------------------------------------------------
(* The sweep: Start, garbageCollect, hasServiceAccount.  One action per    *)
(* call: a listing, the liveness check of an owned key, a store call of    *)
(* removeFromVault.  gc keeps the list being swept (li), the entries of it *)
(* still to visit (keys, the first being the owned key at hand), the       *)
(* lists handed to garbageCollect                                          *)
(* (entered), the store calls of the current removal (calls) and the error *)
(* Start returned (err: "none", "list", "lookup" or "remove").             *)

\* the lists Start sweeps, in its order
sweepList_noPolicies(li) ==
  CASE li = 1 -> "role" [] li = 2 -> "login" [] OTHER -> "login"

sweepList(li) ==
  CASE li = 1 -> "role" [] li = 2 -> "login" [] OTHER -> "policy"

NumLists == 3

\* an entry of a listing ([]interface{}): a string, or something else
StringEntry(k) == [str |-> TRUE, val |-> k]
NonString == [str |-> FALSE, val |-> <<>>]

\* the names the store lists for a kind
Listing(st, kind) ==
  LET present == SelectSeq(KeyList, LAMBDA k : st[kind][k].present)
  IN  [i \in 1..Len(present) |-> StringEntry(present[i])]

GcInit ==
  [pc |-> "list", li |-> 1, keys |-> <<>>, namespace |-> <<>>, name |-> <<>>,
   step |-> 0, calls |-> <<>>, err |-> "none", entered |-> {}]

gcOwned_prefixOnly(k) ==
  IF k.str /\ Split(k.val, Sep)[1] = reconciler.prefix
  THEN [namespace |-> Split(k.val, Sep)[3], name |-> Split(k.val, Sep)[4], parsed |-> TRUE]
  ELSE NotParsed

\* garbageCollect's test of a listed entry: a string that parseKey decodes
gcOwned(k) == IF k.str THEN parseKey(reconciler, k.val) ELSE NotParsed

\* garbageCollect's loop over entries that are not owned: they are skipped
\* without any call, up to the next owned entry
RECURSIVE SkipUnowned(_)
SkipUnowned(keys) ==
  IF keys = <<>> \/ gcOwned(Head(keys)).parsed THEN keys
  ELSE SkipUnowned(Tail(keys))

\* garbageCollect moves to the next key; after the last key Start lists the
\* next kind, and after the last list it returns nil
GcAdvance(g) ==
  LET rest == SkipUnowned(Tail(g.keys))
      g0 == [GcInit EXCEPT !.li = g.li, !.entered = g.entered]
  IN  IF rest # <<>> THEN [g0 EXCEPT !.pc = "key", !.keys = rest]
      ELSE IF g.li < NumLists
           THEN [g0 EXCEPT !.pc = "list", !.li = @ + 1]
           ELSE [g0 EXCEPT !.pc = "done"]

GcFailed_nextKey(g, err) ==
  IF g.keys # <<>> THEN GcAdvance(g)
  ELSE [GcInit EXCEPT !.pc = "done", !.err = err, !.li = g.li, !.entered = g.entered]

\* Start returns err
GcFailed(g, err) ==
  [GcInit EXCEPT !.pc = "done", !.err = err, !.li = g.li, !.entered = g.entered]

\* after a listing: garbageCollect starts on its first key, if any
GcEnter(g, listed) ==
  LET keys == SkipUnowned(listed)
      g1 == [g EXCEPT !.entered = @ \cup {g.li}, !.keys = keys]
  IN  IF keys # <<>> THEN [g1 EXCEPT !.pc = "key"]
      ELSE IF g.li < NumLists
           THEN [g1 EXCEPT !.pc = "list", !.li = @ + 1]
           ELSE [g1 EXCEPT !.pc = "done"]

hasServiceAccount_anyAnnotations(s, namespace, name) ==
  \E id \in Ids : s[id].exists /\ id[1] = namespace /\ id[2] = name

\* hasServiceAccount over the listed service accounts s
hasServiceAccount(s, namespace, name) ==
  \E id \in Ids :
    /\ s[id].exists
    /\ id[1] = namespace
    /\ id[2] = name
    /\ admitEvent(backend, id[1], id[2], s[id].annotations)

GCListFail_swallow ==
  /\ gc.pc = "list"
  /\ fails < MaxFailures
  /\ gc' = GcEnter(gc, <<>>)
  /\ fails' = fails + 1
  /\ UNCHANGED <<sa, queue, store, rec, changes, codec, boot, sidecar, eval>>

\* a listing fails: Start returns the error
GCListFail ==
  /\ gc.pc = "list"
  /\ fails < MaxFailures
  /\ gc' = GcFailed(gc, "list")
  /\ fails' = fails + 1
  /\ UNCHANGED <<sa, queue, store, rec, changes, codec, boot, sidecar, eval>>

\* a listing answers; junk: whether it holds an entry that is no string
GCList(junk) ==
  /\ gc.pc = "list"
  /\ gc' = GcEnter(gc, (IF junk THEN <<NonString>> ELSE <<>>)
                         \o Listing(store, sweepList(gc.li)))
  /\ UNCHANGED <<sa, queue, store, rec, changes, fails, codec, boot, sidecar, eval>>

\* the liveness check of an owned key fails: Start returns the error
GCCheckFail ==
  /\ gc.pc = "key"
  /\ gcOwned(Head(gc.keys)).parsed
  /\ fails < MaxFailures
  /\ gc' = GcFailed(gc, "lookup")
  /\ fails' = fails + 1
  /\ UNCHANGED <<sa, queue, store, rec, changes, codec, boot, sidecar, eval>>

\* the liveness check of an owned key answers
GCCheck ==
  /\ gc.pc = "key"
  /\ gcOwned(Head(gc.keys)).parsed
  /\ LET p == gcOwned(Head(gc.keys))
         has == hasServiceAccount(sa, p.namespace, p.name)
     IN  gc' = IF has
               THEN GcAdvance(gc)
               ELSE [gc EXCEPT !.pc = "remove", !.step = 1,
                               !.namespace = p.namespace, !.name = p.name,
                               !.calls = <<>>]
  /\ UNCHANGED <<sa, queue, store, rec, changes, fails, codec, boot, sidecar, eval>>

\* one store call of removeFromVault, called by garbageCollect
GCRemove(ok) ==
  /\ gc.pc = "remove"
  /\ ok \/ fails < MaxFailures
  /\ LET kind == removeCall(gc.step)
         key == makeKey(reconciler, gc.namespace, gc.name)
         how == removeAfter(gc.step, ok)
         g1 == [gc EXCEPT !.calls = Append(@, Call(kind, ok))]
     IN  /\ store' = IF ok THEN Del(store, kind, key) ELSE store
         /\ gc' = CASE how = "next" -> [g1 EXCEPT !.step = @ + 1]
                    [] how = "nil"  -> GcAdvance(g1)
                    [] OTHER        -> GcFailed(g1, "remove")
  /\ fails' = IF ok THEN fails ELSE fails + 1
  /\ UNCHANGED <<sa, queue, rec, changes, codec, boot, sidecar, eval>>

----------------------------------------------------------------------------
(* The key codec on drawn inputs: makeKey, then parseKey of its result     *)

CodecOff ==
  [pc |-> "off", r |-> reconciler, namespace |-> <<>>, name |-> <<>>,
   key |-> <<>>, out |-> NotParsed]

CodecPrefixes == {vkcc, <<"o">>, <<"o", Sep>>}
CodecBackends == {aws, gcp}
CodecStrings == StringsUpTo({"n", "x", Sep}, MaxLen)

\* names found in a listing: up to MaxSegments segments joined by the separator
MaxSegments == MaxLen + 2
CodecSegments == {vkcc, <<"o">>, aws, gcp, <<"n">>, <<>>}

RECURSIVE JoinSep(_)
JoinSep(segs) ==
  IF segs = <<>> THEN <<>>
  ELSE IF Len(segs) = 1 THEN segs[1]
  ELSE segs[1] \o <<Sep>> \o JoinSep(Tail(segs))

CodecKeys == {JoinSep(segs) : segs \in StringsUpTo(CodecSegments, MaxSegments)}

CodecMake ==
  /\ codec.pc = "in"
  /\ codec' = [codec EXCEPT !.pc = "made",
                            !.key = makeKey(codec.r, codec.namespace, codec.name)]
  /\ UNCHANGED <<sa, queue, store, rec, gc, changes, fails, boot, sidecar, eval>>

CodecParse ==
  /\ codec.pc = "made"
  /\ codec' = [codec EXCEPT !.pc = "parsed", !.out = parseKey(codec.r, codec.key)]
  /\ UNCHANGED <<sa, queue, store, rec, gc, changes, fails, boot, sidecar, eval>>

----------------------------------------------------------------------------
(* The operator's start-up: loadConfigFromFile, then New builds a backend  *)
(* and a backendReconciler for every enabled backend.                      *)

BootOff == [pc |-> "off"]

\* a field of the configuration file: left out, or given with a value
Unset == [set |-> FALSE, val |-> <<>>]
Set(v) == [set |-> TRUE, val |-> v]

defaultFileConfig ==
  [Prefix |-> vkcc,
   AWS |-> [Enabled |-> FALSE, Path |-> aws],
   GCP |-> [Enabled |-> FALSE, Path |-> gcp]]

\* yaml.Unmarshal(data, cfg): the fields the file gives replace the defaults
unmarshal(cfg, file) ==
  [Prefix |-> IF file.prefix.set THEN file.prefix.val ELSE cfg.Prefix,
   AWS |-> [Enabled |-> IF file.awsEnabled = "unset" THEN cfg.AWS.Enabled
                        ELSE file.awsEnabled = "true",
            Path |-> IF file.awsPath.set THEN file.awsPath.val ELSE cfg.AWS.Path],
   GCP |-> [Enabled |-> IF file.gcpEnabled = "unset" THEN cfg.GCP.Enabled
                        ELSE file.gcpEnabled = "true",
            Path |-> IF file.gcpPath.set THEN file.gcpPath.val ELSE cfg.GCP.Path]]

loadConfigFromFile_anyPrefix(file) ==
  IF ~file.given THEN [cfg |-> defaultFileConfig, err |-> "nofile"]
  ELSE IF ~file.readable THEN [cfg |-> defaultFileConfig, err |-> "read"]
  ELSE IF ~file.yaml THEN [cfg |-> defaultFileConfig, err |-> "yaml"]
  ELSE [cfg |-> unmarshal(defaultFileConfig, file), err |-> "none"]

\* loadConfigFromFile -> (cfg, err)
loadConfigFromFile(file) ==
  IF ~file.given THEN [cfg |-> defaultFileConfig, err |-> "nofile"]
  ELSE IF ~file.readable THEN [cfg |-> defaultFileConfig, err |-> "read"]
  ELSE IF ~file.yaml THEN [cfg |-> defaultFileConfig, err |-> "yaml"]
  ELSE LET cfg == unmarshal(defaultFileConfig, file)
       IN  IF Contains(cfg.Prefix, Sep)
           THEN [cfg |-> defaultFileConfig, err |-> "prefix"]
           ELSE [cfg |-> cfg, err |-> "none"]

\* New after the configuration is loaded: the backends that are enabled, in
\* the order aws, gcp; newAWSBackend and newGCPBackend refuse an empty path
newBackends(cfg) ==
  LET a == IF cfg.AWS.Enabled THEN <<[name |-> aws, path |-> cfg.AWS.Path]>> ELSE <<>>
      g == IF cfg.GCP.Enabled THEN <<[name |-> gcp, path |-> cfg.GCP.Path]>> ELSE <<>>
  IN  a \o g

newReconcilers(cfg) ==
  LET backends == newBackends(cfg)
  IN  IF \E i \in 1..Len(backends) : backends[i].path = <<>>
      THEN [reconcilers |-> <<>>, err |-> "path"]
      ELSE IF Len(backends) = 0
      THEN [reconcilers |-> <<>>, err |-> "nobackend"]
      ELSE [reconcilers |-> [i \in 1..Len(backends) |->
                               [prefix |-> cfg.Prefix, backend |-> backends[i].name]],
            err |-> "none"]

ConfigPrefixes == StringsUpTo({"p", Sep}, MaxLen)

ConfigFiles ==
  [given : BOOLEAN, readable : BOOLEAN, yaml : BOOLEAN,
   prefix : {Unset} \cup {Set(s) : s \in ConfigPrefixes},
   awsEnabled : {"unset", "true"}, gcpEnabled : {"unset", "true"},
   awsPath : {Unset, Set(<<>>)}, gcpPath : {Unset, Set(<<>>)}]

BootStart(file) ==
  [pc |-> "start", file |-> file, cfg |-> defaultFileConfig, err |-> "none",
   reconcilers |-> <<>>]

\* New: loadConfigFromFile; an error is returned and main exits
BootLoad ==
  /\ boot.pc = "start"
  /\ LET l == loadConfigFromFile(boot.file)
     IN  boot' = IF l.err # "none"
                 THEN [boot EXCEPT !.pc = "failed", !.err = l.err]
                 ELSE [boot EXCEPT !.pc = "loaded", !.cfg = l.cfg]
  /\ UNCHANGED <<sa, queue, store, rec, gc, changes, fails, codec, sidecar, eval>>

\* New: the manager or the vault client cannot be created
BootEnvFail ==
  /\ boot.pc = "loaded"
  /\ boot' = [boot EXCEPT !.pc = "failed", !.err = "env"]
  /\ UNCHANGED <<sa, queue, store, rec, gc, changes, fails, codec, sidecar, eval>>

\* New: the backends and one backendReconciler for each
BootBuild ==
  /\ boot.pc = "loaded"
  /\ LET n == newReconcilers(boot.cfg)
     IN  boot' = IF n.err # "none"
                 THEN [boot EXCEPT !.pc = "failed", !.err = n.err]
                 ELSE [boot EXCEPT !.pc = "running", !.reconcilers = n.reconcilers]
  /\ UNCHANGED <<sa, queue, store, rec, gc, changes, fails, codec, sidecar, eval>>

----------------------------------------------------------------------------
(* The sidecar's start-up: the role names main derives from its flags and  *)
(* the claims of the service account token.                                *)

SidecarOff == [pc |-> "off"]

\* the literal main puts between the prefix and the namespace, by command
sidecarInfix(cmd) ==
  IF cmd = "aws-sidecar" THEN <<"_", "a", "w", "s", "_">>
  ELSE <<"_", "g", "c", "p", "_">>

\* the backend whose roles the command's sidecar reads
sidecarBackend(cmd) == IF cmd = "aws-sidecar" THEN aws ELSE gcp

sidecarDefaultName_nameFirst(cmd, prefix, claims) ==
  prefix \o sidecarInfix(cmd) \o claims.ServiceAccountName \o <<"_">> \o claims.Namespace

\* the name main uses for a role whose flag is empty
sidecarDefaultName(cmd, prefix, claims) ==
  prefix \o sidecarInfix(cmd) \o claims.Namespace \o <<"_">> \o claims.ServiceAccountName

\* a role flag: its value, or the default name when it is empty
roleFromFlag(flag, cmd, prefix, claims) ==
  IF flag = <<>> THEN sidecarDefaultName(cmd, prefix, claims) ELSE flag

SidecarCommands == {"aws-sidecar", "gcp-sidecar"}
SidecarRoleFlags == {<<>>, <<"r">>}

SidecarStart(cmd, flags, tokenOk, claims) ==
  [pc |-> "start", cmd |-> cmd, flags |-> flags, tokenOk |-> tokenOk,
   claims |-> claims, kubeAuthRole |-> <<>>, role |-> <<>>]

\* main: the token cannot be read and the process exits
SidecarTokenFail ==
  /\ sidecar.pc = "start"
  /\ ~sidecar.tokenOk
  /\ sidecar' = [sidecar EXCEPT !.pc = "failed"]
  /\ UNCHANGED <<sa, queue, store, rec, gc, changes, fails, codec, boot, eval>>

\* main: the login role and the backend role (or roleset) of the sidecar
SidecarNames ==
  /\ sidecar.pc = "start"
  /\ sidecar.tokenOk
  /\ sidecar' =
       [sidecar EXCEPT
          !.pc = "named",
          !.kubeAuthRole = roleFromFlag(sidecar.flags.kubeAuthRole, sidecar.cmd,
                                        sidecar.flags.prefix, sidecar.claims),
          !.role = roleFromFlag(sidecar.flags.role, sidecar.cmd,
                                sidecar.flags.prefix, sidecar.claims)]
  /\ UNCHANGED <<sa, queue, store, rec, gc, changes, fails, codec, boot, eval>>

----------------------------------------------------------------------------
(* The sidecar's renewal timing: sleepDuration.  A duration is a whole     *)
(* number of its unit.  Short leases are counted in nanoseconds, as        *)
(* time.Duration counts; the lease of one hour is counted in milliseconds  *)
(* (its nanoseconds exceed the integers of the checker), which gives the   *)
(* code's result rounded down to the millisecond.  rand.Float64() is       *)
(* k / JitterSteps, and the arithmetic is exact where the code's is        *)
(* float64.                                                                *)

Minute == 60 * 1000
leaseHour == 60 * Minute

sleepDuration_third(leaseDuration, k) ==
  (leaseDuration * 1 * (2 * k + 3 * JitterSteps)) \div (3 * 2 * (2 * JitterSteps))

\* sleepDuration: (leaseDuration * 2 / 3) * (rand + 1.50) / 2, truncated to
\* a whole number by the conversion to time.Duration; with rand = k / JitterSteps
\* the factor rand + 1.50 is (2k + 3 JitterSteps) / (2 JitterSteps)
sleepDuration(leaseDuration, k) ==
  (leaseDuration * 2 * (2 * k + 3 * JitterSteps)) \div (3 * 2 * (2 * JitterSteps))

LeaseDurations == 1..MaxLease \cup {leaseHour}

LeaseStart(leaseDuration, k) ==
  [pc |-> "leased", leaseDuration |-> leaseDuration, k |-> k, sleep |-> 0]

\* the time to sleep before the next fetch is computed from the lease
LeaseSleep ==
  /\ sidecar.pc = "leased"
  /\ sidecar' = [sidecar EXCEPT !.pc = "sleeping",
                                 !.sleep = sleepDuration(sidecar.leaseDuration, sidecar.k)]
  /\ UNCHANGED <<sa, queue, store, rec, gc, changes, fails, codec, boot, eval>>

----------------------------------------------------------------------------
(* The renewal cycle of the sidecar (the Lease Manager's scheduler): it    *)
(* holds a lease and sleeps (active), attempts a renewal when the sleep is *)
(* over (renewing), and after a failed attempt sleeps for the backoff      *)
(* interval (failed) before the next attempt.  interval is the backoff     *)
(* interval of the last failure, 0 after a success.                        *)

\* the first backoff interval and the largest one, in units of the first
backoffBase == 1
backoffMax == 8

nextBackoff_unbounded(interval) ==
  IF interval = 0 THEN backoffBase ELSE 2 * interval

\* exponential backoff: the interval doubles with every failure in a row,
\* up to the maximum interval
nextBackoff(interval) ==
  IF interval = 0 THEN backoffBase
  ELSE IF 2 * interval > backoffMax THEN backoffMax ELSE 2 * interval

\* the sidecar holds a lease and has scheduled its renewal
RenewStart(leaseDuration, k) ==
  [pc |-> "active", leaseDuration |-> leaseDuration,
   sleep |-> sleepDuration(leaseDuration, k), interval |-> 0]

\* the sleep is over: the next renewal attempt begins
RenewDue ==
  /\ sidecar.pc \in {"active", "failed"}
  /\ sidecar' = [sidecar EXCEPT !.pc = "renewing"]
  /\ UNCHANGED <<sa, queue, store, rec, gc, changes, fails, codec, boot, eval>>

\* the attempt succeeds: the new lease replaces the old one and the next
\* renewal is scheduled by the jitter formula
RenewOk ==
  /\ sidecar.pc = "renewing"
  /\ \E leaseDuration \in LeaseDurations, k \in 0..(JitterSteps - 1) :
       sidecar' = RenewStart(leaseDuration, k)
  /\ UNCHANGED <<sa, queue, store, rec, gc, changes, fails, codec, boot, eval>>

\* the attempt fails: the next attempt is scheduled after the backoff interval
RenewFail ==
  /\ sidecar.pc = "renewing"
  /\ sidecar' = [sidecar EXCEPT !.pc = "failed",
                                 !.interval = nextBackoff(sidecar.interval),
                                 !.sleep = nextBackoff(sidecar.interval)]
  /\ UNCHANGED <<sa, queue, store, rec, gc, changes, fails, codec, boot, eval>>

----------------------------------------------------------------------------
(* Admission exercised on drawn rules, namespaces and annotations *)

EvalOff == [pc |-> "off"]

\* the lists of at most n entries of S
ListsUpTo(S, n) == UNION {[1..k -> S] : k \in 0..n}

\* patterns: a glob, a literal and the malformed one
EvalNamespacePatterns == {<<"n", "*">>, <<"m">>, <<"[">>}
EvalRoleNamePatterns == {<<"a", "p", "*">>, <<"[">>}
EvalAccountIDs == {<<"1">>, <<"2">>}
EvalNamespaces == {n1, <<"m">>, <<"k">>}

\* arn:aws:iam::2:role/app, arn:aws:iam::1:user/app and a string that is no ARN
arnApp2 ==
  <<"a","r","n",":","a","w","s",":","i","a","m",":",":","2",":","r","o","l","e","/","a","p","p">>
arnUser ==
  <<"a","r","n",":","a","w","s",":","i","a","m",":",":","1",":","u","s","e","r","/","a","p","p">>
notArn == <<"a", "p", "p">>

EvalRoleArns == {arnApp, arnAdm, arnApp2, arnUser, notArn}

AWSRule(nps, rps, ids) ==
  [NamespacePatterns |-> nps, RoleNamePatterns |-> rps, AccountIDs |-> ids]

\* every rule over the drawn patterns and account IDs
EvalAWSRule ==
  {AWSRule(nps, rps, ids) :
     nps \in ListsUpTo(EvalNamespacePatterns, MaxLen),
     rps \in ListsUpTo(EvalRoleNamePatterns, MaxLen),
     ids \in ListsUpTo(EvalAccountIDs, MaxLen)}

\* the rules the drawn lists are made of: one that allows n*, one that allows
\* account 2 only, one that allows nothing, one with a malformed namespace
\* pattern, one with a malformed role-name pattern
EvalListedAWSRules ==
  {AWSRule(<< <<"n", "*">> >>, << <<"a", "p", "*">> >>, <<>>),
   AWSRule(<< <<"n", "*">>, <<"m">> >>, << <<"a", "p", "*">> >>, << <<"2">> >>),
   AWSRule(<<>>, << <<"a", "p", "*">> >>, <<>>),
   AWSRule(<< <<"[">> >>, << <<"a", "p", "*">> >>, <<>>),
   AWSRule(<< <<"m">> >>, << <<"[">> >>, <<>>)}

EvalAWSRules ==
  ListsUpTo(EvalListedAWSRules, MaxLen) \cup {<<r>> : r \in EvalAWSRule}

\* annotations without the role annotation, with an empty one, with each
\* drawn role ARN
EvalAwsAnnotations ==
  {NoAnnotations} \cup {awsRoleAnnotation :> r : r \in EvalRoleArns \cup {<<>>}}

awsBackend(rules) == [name |-> aws, path |-> aws, rules |-> rules]

EvalAwsStart(rules, namespace, annotations) ==
  [pc |-> "in", backend |-> aws, rules |-> rules, namespace |-> namespace,
   annotations |-> annotations,
   roleArn |-> Lookup(annotations, awsRoleAnnotation), admitted |-> FALSE,
   out |-> [allowed |-> FALSE, err |-> FALSE]]

\* awsBackend.admitEvent on the drawn event
EvalAwsAdmit ==
  /\ eval.pc = "in"
  /\ eval.backend = aws
  /\ eval' = [eval EXCEPT !.pc = "admit",
                           !.admitted = admitEvent(awsBackend(eval.rules), eval.namespace,
                                                   nameX, eval.annotations)]
  /\ UNCHANGED <<sa, queue, store, rec, gc, changes, fails, codec, boot, sidecar>>

\* AWSRules.allow on the drawn list
EvalAwsAllow ==
  /\ eval.pc = "in"
  /\ eval.backend = aws
  /\ eval' = [eval EXCEPT !.pc = "allow",
                           !.out = awsRulesAllow(eval.rules, eval.namespace, eval.roleArn)]
  /\ UNCHANGED <<sa, queue, store, rec, gc, changes, fails, codec, boot, sidecar>>

\* AWSRule.allows of the first rule on the parsed ARN, as the loop calls it
EvalAwsRule ==
  /\ eval.pc = "in"
  /\ eval.backend = aws
  /\ eval.rules # <<>>
  /\ ~arnParse(eval.roleArn).err
  /\ eval' = [eval EXCEPT !.pc = "allows",
                           !.out = awsRuleAllows(Head(eval.rules), eval.namespace,
                                                 arnParse(eval.roleArn))]
  /\ UNCHANGED <<sa, queue, store, rec, gc, changes, fails, codec, boot, sidecar>>

\* the Project-Binding backend's rules, projects and annotations
EvalGcpPatterns == {<<"n", "*">>, <<"[">>}
EvalProjects == {<<"p">>, <<"*">>}
EvalGcpNamespaces == {n1, <<"k">>}

gcpRule(nps, ps) == [NamespacePatterns |-> nps, Projects |-> ps]

\* every rule over the drawn patterns and projects
EvalGcpRule ==
  {gcpRule(nps, ps) : nps \in ListsUpTo(EvalGcpPatterns, MaxLen),
                      ps \in ListsUpTo(EvalProjects, MaxLen)}

\* the rules the drawn lists are made of: n* for p, n* for "*", one without
\* namespace patterns, one without projects, one with a malformed pattern
EvalListedGcpRules ==
  {gcpRule(<< <<"n", "*">> >>, << <<"p">> >>),
   gcpRule(<< <<"n", "*">> >>, << <<"*">> >>),
   gcpRule(<<>>, << <<"p">> >>),
   gcpRule(<< <<"n", "*">> >>, <<>>),
   gcpRule(<< <<"[">> >>, << <<"p">> >>)}

EvalGcpRules ==
  ListsUpTo(EvalListedGcpRules, MaxLen) \cup {<<r>> : r \in EvalGcpRule}

\* the roles of a resource: a list of one role, an empty list, no list
roleA == <<"a">>
roleB == <<"b">>
EvalRoles == {RoleList(<<StringRole(roleA)>>), RoleList(<<>>), NoList}

EvalBindings ==
  {NotMapping} \cup {Mapping(entries) :
                       entries \in {Keyed(values) : values \in ListsUpTo(EvalRoles, MaxLen)}}

\* annotations with and without each of the two keys; the project may be ""
EvalGcpAnnotations ==
  {[k \in D |-> IF k = gcpProjectAnnotation THEN p ELSE b] :
     D \in SUBSET {gcpProjectAnnotation, gcpBindingsAnnotation},
     p \in EvalProjects \cup {<<>>}, b \in EvalBindings}

gcpBackend(rules) == [name |-> gcp, path |-> gcp, rules |-> rules]

EvalGcpStart(rules, namespace, annotations) ==
  [pc |-> "in", backend |-> gcp, rules |-> rules, namespace |-> namespace,
   annotations |-> annotations, admitted |-> FALSE,
   out |-> [allowed |-> FALSE, err |-> FALSE]]

\* gcpBackend.admitEvent on the drawn event
EvalGcpAdmit ==
  /\ eval.pc = "in"
  /\ eval.backend = gcp
  /\ eval' = [eval EXCEPT !.pc = "admit",
                           !.admitted = gcpAdmitEvent(gcpBackend(eval.rules), eval.namespace,
                                                      nameX, eval.annotations)]
  /\ UNCHANGED <<sa, queue, store, rec, gc, changes, fails, codec, boot, sidecar>>

\* gcpRules.allow on the project of the drawn event
EvalGcpAllow ==
  /\ eval.pc = "in"
  /\ eval.backend = gcp
  /\ eval' = [eval EXCEPT !.pc = "allow",
                           !.out = gcpRulesAllow(eval.rules, eval.namespace,
                                                 Lookup(eval.annotations, gcpProjectAnnotation))]
  /\ UNCHANGED <<sa, queue, store, rec, gc, changes, fails, codec, boot, sidecar>>

\* gcpRule.allows of the first rule, as the loop calls it
EvalGcpAllows ==
  /\ eval.pc = "in"
  /\ eval.backend = gcp
  /\ eval.rules # <<>>
  /\ eval' = [eval EXCEPT !.pc = "allows",
                           !.out = gcpRuleAllows(Head(eval.rules), eval.namespace,
                                                 Lookup(eval.annotations, gcpProjectAnnotation))]
  /\ UNCHANGED <<sa, queue, store, rec, gc, changes, fails, codec, boot, sidecar>>

\* the patterns and namespaces of TestGCPBackendAdmitEvent, a namespace in
\* another case, and every short pattern and namespace besides
foo == <<"f", "o", "o">>
foobar == <<"f", "o", "o", "b", "a", "r">>
barStar == <<"b", "a", "r", "-", "*">>
barFoo == <<"b", "a", "r", "-", "f", "o", "o">>
barfoo == <<"b", "a", "r", "f", "o", "o">>
fooAny == <<"f", "o", "o", "?">>
fooz == <<"f", "o", "o", "z">>
Foo == <<"F", "o", "o">>

EvalMatchPatterns ==
  {foo, barStar, fooAny, Foo} \cup StringsUpTo({"f", "*", "?"}, MaxLen)
EvalMatchNamespaces ==
  {foo, foobar, barFoo, barfoo, fooz, Foo} \cup StringsUpTo({"f", "F"}, MaxLen)

EvalMatchStart(pattern, namespace) ==
  [pc |-> "in", pattern |-> pattern, namespace |-> namespace,
   out |-> [match |-> FALSE, err |-> FALSE]]

\* gcpRule.matchesNamespace of a rule with the one drawn pattern
EvalMatch ==
  /\ eval.pc = "in"
  /\ eval' = [eval EXCEPT !.pc = "matched",
                           !.out = gcpMatchesNamespace(gcpRule(<<eval.pattern>>, <<>>),
                                                       eval.namespace)]
  /\ UNCHANGED <<sa, queue, store, rec, gc, changes, fails, codec, boot, sidecar>>

\* the mounts and the keys policies are rendered for
EvalPaths == {aws, gcp, <<"a", "w", "s", "/", "b">>}
EvalPolicyKeys ==
  {makeKey([prefix |-> p, backend |-> b], ns, nm) :
     p \in CodecPrefixes, b \in CodecBackends, ns \in CodecStrings, nm \in CodecStrings}

EvalPolicyStart(b, path, name) ==
  [pc |-> "in", backend |-> b, path |-> path, name |-> name, out |-> <<>>]

\* awsBackend.renderPolicy for the drawn mount and key
EvalAwsRender ==
  /\ eval.pc = "in"
  /\ eval.backend = aws
  /\ eval' = [eval EXCEPT !.pc = "rendered",
                           !.out = renderPolicy([name |-> aws, path |-> eval.path,
                                                 rules |-> <<>>], eval.name)]
  /\ UNCHANGED <<sa, queue, store, rec, gc, changes, fails, codec, boot, sidecar>>

\* gcpBackend.renderPolicy for the drawn mount and key
EvalGcpRender ==
  /\ eval.pc = "in"
  /\ eval.backend = gcp
  /\ eval' = [eval EXCEPT !.pc = "rendered",
                           !.out = gcpRenderPolicy([name |-> gcp, path |-> eval.path,
                                                    rules |-> <<>>], eval.name)]
  /\ UNCHANGED <<sa, queue, store, rec, gc, changes, fails, codec, boot, sidecar>>

\* the role lists of the bindings whose roleset is written: one role, two
\* roles, a role and a value that is no string, a value that is no string
\* alone, an empty list, no list
EvalWriteRoles ==
  {RoleList(<<StringRole(roleA)>>), RoleList(<<StringRole(roleA), StringRole(roleB)>>),
   RoleList(<<StringRole(roleA), NonStringRole>>), RoleList(<<NonStringRole>>),
   RoleList(<<>>), NoList}

EvalWriteAnnotations ==
  {[k \in {gcpProjectAnnotation, gcpBindingsAnnotation} |->
      IF k = gcpProjectAnnotation THEN p ELSE Mapping(Keyed(values))] :
     p \in EvalProjects, values \in ListsUpTo(EvalWriteRoles, MaxLen)}

EvalWriteStart(b, annotations) ==
  [pc |-> "in", backend |-> b, annotations |-> annotations, writes |-> <<>>]

\* the number of entries of the bindings annotation
NumBindings(annotations) == Len(annotations[gcpBindingsAnnotation].entries)

\* awsBackend.writeRole is called, a first and a second time
EvalAwsWriteRole ==
  /\ eval.pc = "in"
  /\ eval.backend = aws
  /\ Len(eval.writes) < 2
  /\ eval' = [eval EXCEPT !.writes = Append(@, [err |-> FALSE,
                                                data |-> roleData(eval.annotations)])]
  /\ UNCHANGED <<sa, queue, store, rec, gc, changes, fails, codec, boot, sidecar>>

\* gcpBackend.writeRole is called, a first and a second time; the range over
\* the bindings map takes an order of its own in each call
EvalGcpWriteRole ==
  /\ eval.pc = "in"
  /\ eval.backend = gcp
  /\ Len(eval.writes) < 2
  /\ \E order \in MapOrders(NumBindings(eval.annotations)) :
       eval' = [eval EXCEPT !.writes = Append(@, gcpWriteRole(eval.annotations, order))]
  /\ UNCHANGED <<sa, queue, store, rec, gc, changes, fails, codec, boot, sidecar>>

----------------------------------------------------------------------------
(* Specifications *)

\* the objects of others that the store holds throughout: the default policy,
\* the other backend's policy and login role, the login role of an operator
\* with another prefix, a backend role with a five-part name
ForeignAt(kind) ==
  CASE kind = "policy" -> {keyDefault, keyOtherBackend}
    [] kind = "login"  -> {keyOtherBackend, keyOtherPrefix}
    [] OTHER           -> {keyFiveParts}

\* what an earlier run of the operator left under an owned key
StaleObj(kind, id) ==
  Obj(writeData(kind, id[1], id[2], AnnAdm))

\* the store when the operator starts: left[id] is the part of the triple of
\* id's key that an earlier run left behind
InitStore(left) ==
  [kind \in Kinds |->
     [k \in AllKeys |->
        IF k \in ForeignAt(kind) THEN Foreign
        ELSE IF \E id \in Ids : k = Key(id) /\ kind \in left[id]
             THEN StaleObj(kind, CHOOSE id \in Ids : k = Key(id))
             ELSE Nil]]

\* a live identity's key starts with nothing, with the backend role alone,
\* with all but the backend role, or with its whole triple; an orphaned key
\* with the policy alone or with all of it
InitLeft ==
  {left \in [Ids -> SUBSET Kinds] :
     /\ \A id \in Live : left[id] \in {{}, {"role"}, {"login", "policy"}, Kinds}
     /\ \A id \in Ids \ Live : left[id] \in {{"policy"}, Kinds}}

Init ==
  /\ sa \in {s \in [Ids -> {Absent, Present(AnnApp)}] :
               \A id \in Ids \ Live : ~s[id].exists}
  /\ queue = {id \in Ids :
                sa[id].exists /\ eventFilter(backend, [type |-> "create", id |-> id,
                                                       old |-> Absent, new |-> sa[id]])}
  /\ store \in {InitStore(left) : left \in InitLeft}
  /\ rec = RecIdle
  /\ gc = GcInit
  /\ changes = 0
  /\ fails = 0
  /\ codec = CodecOff
  /\ boot = BootOff
  /\ sidecar = SidecarOff
  /\ eval = EvalOff

Next ==
  \/ \E id \in Live, a \in Annotations : CreateSA(id, a)
  \/ \E id \in Live, a \in Annotations : UpdateSA(id, a)
  \/ \E id \in Live : DeleteSA(id)
  \/ \E id \in Live : GenericEvent(id)
  \/ \E id \in Ids : RecStartFail(id)
  \/ \E id \in Ids : RecStart(id)
  \/ \E ok \in BOOLEAN : RecRemove(ok)
  \/ RecRenderFail
  \/ \E ok \in BOOLEAN : RecWrite(ok)
  \/ GCListFail
  \/ \E junk \in BOOLEAN : GCList(junk)
  \/ GCCheckFail
  \/ GCCheck
  \/ \E ok \in BOOLEAN : GCRemove(ok)

Spec == Init /\ [][Next]_vars

\* Reconcile alone, one attempt at a time and no sweep, on keys that hold
\* nothing when the operator starts
InitReconcile ==
  /\ sa \in {s \in [Ids -> {Absent, Present(AnnApp)}] :
               \A id \in Ids \ Live : ~s[id].exists}
  /\ queue = {id \in Ids :
                sa[id].exists /\ eventFilter(backend, [type |-> "create", id |-> id,
                                                       old |-> Absent, new |-> sa[id]])}
  /\ store = InitStore([id \in Ids |-> {}])
  /\ rec = RecIdle
  /\ gc = GcInit
  /\ changes = 0
  /\ fails = 0
  /\ codec = CodecOff
  /\ boot = BootOff
  /\ sidecar = SidecarOff
  /\ eval = EvalOff

NextReconcile ==
  \/ \E id \in Live, a \in Annotations : CreateSA(id, a)
  \/ \E id \in Live, a \in Annotations : UpdateSA(id, a)
  \/ \E id \in Live : DeleteSA(id)
  \/ \E id \in Live : GenericEvent(id)
  \/ \E id \in Ids : RecStartFail(id)
  \/ \E id \in Ids : RecStart(id)
  \/ \E ok \in BOOLEAN : RecRemove(ok)
  \/ RecRenderFail
  \/ \E ok \in BOOLEAN : RecWrite(ok)

SpecReconcile == InitReconcile /\ [][NextReconcile]_vars

\* the codec alone, on every drawn reconciler, namespace and name
InitKey ==
  /\ sa = [id \in Ids |-> Absent]
  /\ queue = {}
  /\ store = InitStore([id \in Ids |-> {}])
  /\ rec = RecIdle
  /\ gc = GcInit
  /\ changes = 0
  /\ fails = 0
  /\ boot = BootOff
  /\ sidecar = SidecarOff
  /\ eval = EvalOff
  /\ codec \in {[CodecOff EXCEPT !.pc = "in", !.r = [prefix |-> p, backend |-> b],
                                  !.namespace = ns, !.name = nm] :
                  p \in CodecPrefixes, b \in CodecBackends,
                  ns \in CodecStrings, nm \in CodecStrings}

NextKey == CodecMake \/ CodecParse

SpecKey == InitKey /\ [][NextKey]_vars

\* parseKey alone, on every drawn reconciler and listed name
InitParse ==
  /\ sa = [id \in Ids |-> Absent]
  /\ queue = {}
  /\ store = InitStore([id \in Ids |-> {}])
  /\ rec = RecIdle
  /\ gc = GcInit
  /\ changes = 0
  /\ fails = 0
  /\ boot = BootOff
  /\ sidecar = SidecarOff
  /\ eval = EvalOff
  /\ codec \in {[CodecOff EXCEPT !.pc = "made", !.r = [prefix |-> p, backend |-> b],
                                  !.key = k] :
                  p \in CodecPrefixes, b \in CodecBackends, k \in CodecKeys}

NextParse == CodecParse

SpecParse == InitParse /\ [][NextParse]_vars

\* the operator's start-up on every drawn configuration file
InitBoot ==
  /\ sa = [id \in Ids |-> Absent]
  /\ queue = {}
  /\ store = InitStore([id \in Ids |-> {}])
  /\ rec = RecIdle
  /\ gc = GcInit
  /\ changes = 0
  /\ fails = 0
  /\ codec = CodecOff
  /\ sidecar = SidecarOff
  /\ eval = EvalOff
  /\ boot \in {BootStart(file) : file \in ConfigFiles}

NextBoot == BootLoad \/ BootEnvFail \/ BootBuild

SpecBoot == InitBoot /\ [][NextBoot]_vars

\* the sidecar's start-up on every drawn command, flags and token
InitSidecar ==
  /\ sa = [id \in Ids |-> Absent]
  /\ queue = {}
  /\ store = InitStore([id \in Ids |-> {}])
  /\ rec = RecIdle
  /\ gc = GcInit
  /\ changes = 0
  /\ fails = 0
  /\ codec = CodecOff
  /\ boot = BootOff
  /\ eval = EvalOff
  /\ sidecar \in {SidecarStart(cmd, [prefix |-> p, kubeAuthRole |-> k, role |-> r],
                                tokenOk, [Namespace |-> ns, ServiceAccountName |-> nm]) :
                    cmd \in SidecarCommands, p \in CodecPrefixes,
                    k \in SidecarRoleFlags, r \in SidecarRoleFlags,
                    tokenOk \in BOOLEAN, ns \in CodecStrings, nm \in CodecStrings}

NextSidecar == SidecarTokenFail \/ SidecarNames

SpecSidecar == InitSidecar /\ [][NextSidecar]_vars

\* the Role-ARN rules on every drawn rule list, namespace and role ARN
InitAws ==
  /\ sa = [id \in Ids |-> Absent]
  /\ queue = {}
  /\ store = InitStore([id \in Ids |-> {}])
  /\ rec = RecIdle
  /\ gc = GcInit
  /\ changes = 0
  /\ fails = 0
  /\ codec = CodecOff
  /\ boot = BootOff
  /\ sidecar = SidecarOff
  /\ eval \in {EvalAwsStart(rules, namespace, annotations) :
                 rules \in EvalAWSRules, namespace \in EvalNamespaces,
                 annotations \in EvalAwsAnnotations}

NextAws == EvalAwsAdmit \/ EvalAwsAllow \/ EvalAwsRule

SpecAws == InitAws /\ [][NextAws]_vars

\* the Project-Binding backend on every drawn rule list, namespace and event
InitGcp ==
  /\ sa = [id \in Ids |-> Absent]
  /\ queue = {}
  /\ store = InitStore([id \in Ids |-> {}])
  /\ rec = RecIdle
  /\ gc = GcInit
  /\ changes = 0
  /\ fails = 0
  /\ codec = CodecOff
  /\ boot = BootOff
  /\ sidecar = SidecarOff
  /\ eval \in {EvalGcpStart(rules, namespace, annotations) :
                 rules \in EvalGcpRules, namespace \in EvalGcpNamespaces,
                 annotations \in EvalGcpAnnotations}

NextGcp == EvalGcpAdmit \/ EvalGcpAllow \/ EvalGcpAllows

SpecGcp == InitGcp /\ [][NextGcp]_vars

\* a namespace pattern against a namespace, on every drawn pair
InitMatch ==
  /\ sa = [id \in Ids |-> Absent]
  /\ queue = {}
  /\ store = InitStore([id \in Ids |-> {}])
  /\ rec = RecIdle
  /\ gc = GcInit
  /\ changes = 0
  /\ fails = 0
  /\ codec = CodecOff
  /\ boot = BootOff
  /\ sidecar = SidecarOff
  /\ eval \in {EvalMatchStart(pattern, namespace) :
                 pattern \in EvalMatchPatterns, namespace \in EvalMatchNamespaces}

NextMatch == EvalMatch

SpecMatch == InitMatch /\ [][NextMatch]_vars

\* the rule lists of both backends, on every drawn list of listed rules
InitRules ==
  /\ sa = [id \in Ids |-> Absent]
  /\ queue = {}
  /\ store = InitStore([id \in Ids |-> {}])
  /\ rec = RecIdle
  /\ gc = GcInit
  /\ changes = 0
  /\ fails = 0
  /\ codec = CodecOff
  /\ boot = BootOff
  /\ sidecar = SidecarOff
  /\ eval \in {EvalAwsStart(rules, namespace, annotations) :
                 rules \in ListsUpTo(EvalListedAWSRules, MaxLen),
                 namespace \in EvalNamespaces, annotations \in EvalAwsAnnotations}
           \cup {EvalGcpStart(rules, namespace, annotations) :
                 rules \in ListsUpTo(EvalListedGcpRules, MaxLen),
                 namespace \in EvalGcpNamespaces, annotations \in EvalGcpAnnotations}

NextRules ==
  \/ EvalAwsAdmit \/ EvalAwsAllow \/ EvalAwsRule
  \/ EvalGcpAdmit \/ EvalGcpAllow \/ EvalGcpAllows

SpecRules == InitRules /\ [][NextRules]_vars

\* sleepDuration on every drawn lease and random value
InitLease ==
  /\ sa = [id \in Ids |-> Absent]
  /\ queue = {}
  /\ store = InitStore([id \in Ids |-> {}])
  /\ rec = RecIdle
  /\ gc = GcInit
  /\ changes = 0
  /\ fails = 0
  /\ codec = CodecOff
  /\ boot = BootOff
  /\ eval = EvalOff
  /\ sidecar \in {LeaseStart(leaseDuration, k) :
                    leaseDuration \in LeaseDurations, k \in 0..(JitterSteps - 1)}

NextLease == LeaseSleep

SpecLease == InitLease /\ [][NextLease]_vars

\* the renewal cycle, from every drawn first lease; a sleep ends, so the
\* next attempt is always made
InitRenew ==
  /\ sa = [id \in Ids |-> Absent]
  /\ queue = {}
  /\ store = InitStore([id \in Ids |-> {}])
  /\ rec = RecIdle
  /\ gc = GcInit
  /\ changes = 0
  /\ fails = 0
  /\ codec = CodecOff
  /\ boot = BootOff
  /\ eval = EvalOff
  /\ sidecar \in {RenewStart(leaseDuration, k) :
                    leaseDuration \in LeaseDurations, k \in 0..(JitterSteps - 1)}

NextRenew == RenewDue \/ RenewOk \/ RenewFail

SpecRenew == InitRenew /\ [][NextRenew]_vars /\ WF_vars(RenewDue)

\* the policy of both backends on every drawn mount and key
InitPolicy ==
  /\ sa = [id \in Ids |-> Absent]
  /\ queue = {}
  /\ store = InitStore([id \in Ids |-> {}])
  /\ rec = RecIdle
  /\ gc = GcInit
  /\ changes = 0
  /\ fails = 0
  /\ codec = CodecOff
  /\ boot = BootOff
  /\ sidecar = SidecarOff
  /\ eval \in {EvalPolicyStart(b, path, name) :
                 b \in {aws, gcp}, path \in EvalPaths, name \in EvalPolicyKeys}

NextPolicy == EvalAwsRender \/ EvalGcpRender

SpecPolicy == InitPolicy /\ [][NextPolicy]_vars

\* writeRole of both backends, called twice with the same annotations
InitWriteRole ==
  /\ sa = [id \in Ids |-> Absent]
  /\ queue = {}
  /\ store = InitStore([id \in Ids |-> {}])
  /\ rec = RecIdle
  /\ gc = GcInit
  /\ changes = 0
  /\ fails = 0
  /\ codec = CodecOff
  /\ boot = BootOff
  /\ sidecar = SidecarOff
  /\ eval \in {EvalWriteStart(aws, annotations) : annotations \in EvalAwsAnnotations}
           \cup {EvalWriteStart(gcp, annotations) : annotations \in EvalWriteAnnotations}

NextWriteRole == EvalAwsWriteRole \/ EvalGcpWriteRole

SpecWriteRole == InitWriteRole /\ [][NextWriteRole]_vars

----------------------------------------------------------------------------
(* Properties *)

id1 == <<n1, nameX>>
id2 == <<n2, nameY>>

NoSep(s) == ~Contains(s, Sep)

\* C10: for every prefix, namespace and name without the separator,
\* parseKey(makeKey(namespace, name)) gives back (namespace, name, true), and
\* no other separator-free pair is encoded to the same key.
KeyRoundTrip ==
  (/\ codec.pc \in {"made", "parsed"}
   /\ NoSep(codec.r.prefix)
   /\ NoSep(codec.namespace)
   /\ NoSep(codec.name))
  => /\ codec.pc = "parsed" =>
          codec.out = [namespace |-> codec.namespace, name |-> codec.name,
                       parsed |-> TRUE]
     /\ \A ns \in CodecStrings, nm \in CodecStrings :
          (NoSep(ns) /\ NoSep(nm) /\ <<ns, nm>> # <<codec.namespace, codec.name>>)
          => makeKey(codec.r, ns, nm) # codec.key

KeyRoundTripReached ==
  /\ codec.pc = "parsed"
  /\ NoSep(codec.r.prefix)
  /\ NoSep(codec.namespace)
  /\ NoSep(codec.name)
  /\ codec.namespace # <<>>
  /\ codec.name # <<>>
  /\ codec.namespace # codec.name
  /\ codec.out.parsed

\* C2: the event filter passes a create, delete or generic event exactly
\* when admitEvent holds for the object, and an update exactly when it holds
\* for the old or for the new object; so every change of an identity from
\* admitted to not admitted leaves its request in the queue.
EventFilterPasses ==
  [][(changes' # changes \/ sa' # sa)
       => /\ sa' = sa
               => \E id \in Ids :
                    /\ sa[id].exists
                    /\ queue' = IF admitEvent(backend, id[1], id[2], sa[id].annotations)
                                 THEN queue \cup {id} ELSE queue
          /\ \A id \in Ids :
               LET old == sa[id]
                   new == sa'[id]
                   admitOld == admitEvent(backend, id[1], id[2], old.annotations)
                   admitNew == admitEvent(backend, id[1], id[2], new.annotations)
                   added == id \in queue' /\ id \notin queue
               IN  /\ (~old.exists /\ new.exists)
                        => (added <=> (id \notin queue /\ admitNew))
                   /\ (old.exists /\ ~new.exists)
                        => (added <=> (id \notin queue /\ admitOld))
                   /\ (old.exists /\ new.exists /\ old # new)
                        => (added <=> (id \notin queue /\ (admitOld \/ admitNew)))
                   /\ (Admitted(id, old) /\ ~Admitted(id, new)) => id \in queue'
    ]_vars

\* Reconcile found an identity that is not admitted: the update that took
\* its admission away passed the filter
EventFilterReached ==
  /\ rec.pc = "remove"
  /\ rec.found
  /\ ~rec.admitted
  /\ rec.req = id1
  /\ sa[id1] = Present(AnnAdm)

\* C9: when the listing of backend roles, login roles or policies fails,
\* Start returns that error: the list that failed and the later lists are
\* never handed to garbageCollect, and Start never returns nil afterwards.
SweepListFailure ==
  [][/\ (gc.pc = "list" /\ gc' # gc /\ fails' # fails)
          => /\ gc'.pc = "done"
             /\ gc'.err = "list"
             /\ gc'.li = gc.li
             /\ gc'.entered = gc.entered
             /\ store' = store
     /\ gc.pc = "list" => \A l \in 1..NumLists : l \in gc.entered <=> l < gc.li
     /\ gc.pc = "done" => gc' = gc
     /\ (gc.pc = "done" /\ gc.err = "none") => gc.entered = 1..NumLists
    ]_vars

SweepListFailureReached ==
  /\ gc.pc = "done"
  /\ gc.err = "list"
  /\ gc.li = 2
  /\ gc.entered = {1}
  /\ Triple(store, Key(id2)) = {"policy"}

\* the key the sweep is removing
GcKey == makeKey(reconciler, gc.namespace, gc.name)

\* C3: for an owned key of a listing, the sweep asks whether an admitted
\* identity exists for it: if none does, removeFromVault is started for that
\* key and, its calls succeeding, deletes the backend role, the login role
\* and the policy; if one does, the sweep leaves the store as it is and goes
\* on to the next entry.  The sweep changes the store in no other step.
SweepDecision ==
  [][/\ (gc.pc = "key" /\ gc' # gc /\ fails' = fails)
          => LET k == Head(gc.keys).val
                 p == parseKey(reconciler, k)
             IN  /\ p.parsed
                 /\ store' = store
                 /\ IF \E id \in Ids : /\ id = <<p.namespace, p.name>>
                                       /\ Admitted(id, sa[id])
                    THEN /\ gc'.pc # "remove"
                         /\ gc'.err = "none"
                         /\ gc'.pc = "key" => Head(gc'.keys).val # k
                    ELSE /\ gc'.pc = "remove"
                         /\ gc'.calls = <<>>
                         /\ makeKey(reconciler, gc'.namespace, gc'.name) = k
     /\ (gc.pc = "remove" /\ gc' # gc /\ fails' = fails /\ gc'.pc # "remove")
          => /\ gc.calls = <<Call("role", TRUE), Call("login", TRUE)>>
             /\ store' = Del(store, "policy", GcKey)
     /\ (gc' # gc /\ store' # store) => gc.pc = "remove"
    ]_vars

\* the sweep left the complete triple of the admitted identity alone and is
\* at the last delete of the orphaned key
SweepDecisionReached ==
  /\ gc.pc = "remove"
  /\ gc.step = 3
  /\ GcKey = Key(id2)
  /\ gc.li = 1
  /\ Triple(store, Key(id2)) = {"policy"}
  /\ Admitted(id1, sa[id1])
  /\ Triple(store, Key(id1)) = Kinds
  /\ rec = RecIdle
  /\ changes = 0

\* C4: the sweep deletes nothing under a name that parseKey does not decode
\* as owned by this reconciler (another prefix, another backend, a segment
\* count other than four, an entry that is no string): such entries are
\* passed over without a call and without an error, and every removal is
\* for the listed entry itself.
SweepSparesUnowned ==
  [][gc' # gc
       => /\ \A kind \in Kinds, k \in AllKeys :
               store'[kind][k] # store[kind][k]
               => /\ parseKey(reconciler, k).parsed
                  /\ gc.pc = "remove"
                  /\ Head(gc.keys) = StringEntry(k)
          /\ gc'.err # "none" => fails' # fails
          /\ gc'.pc \in {"key", "remove"}
               => /\ gc'.keys # <<>>
                  /\ Head(gc'.keys).str
                  /\ parseKey(reconciler, Head(gc'.keys).val).parsed
          /\ gc'.pc = "remove"
               => makeKey(reconciler, gc'.namespace, gc'.name) = Head(gc'.keys).val
    ]_vars

\* the sweep returned nil: it removed the orphaned triple and every object
\* of others is still there
SweepSparesUnownedReached ==
  /\ gc.pc = "done"
  /\ gc.err = "none"
  /\ fails = 0
  /\ Triple(store, Key(id2)) = {}
  /\ \A kind \in Kinds : \A k \in ForeignAt(kind) : store[kind][k] = Foreign

RemoveSeq == <<"role", "login", "policy">>
WriteSeq == <<"policy", "login", "role">>

\* C6: removeFromVault, called by Reconcile or by the sweep, deletes the
\* backend role, then the login role, then the policy; a delete that fails
\* makes it return the error with no later delete issued.
RemoveOrder ==
  [][/\ (rec.pc = "remove" /\ rec' # rec)
          => LET n == Len(rec.calls) + 1
             IN  /\ n <= 3
                 /\ \A i \in 1..(n - 1) : rec.calls[i] = Call(RemoveSeq[i], TRUE)
                 /\ IF fails' = fails
                    THEN /\ store' = Del(store, RemoveSeq[n], Key(rec.req))
                         /\ IF n < 3
                            THEN /\ rec'.pc = "remove"
                                 /\ rec'.calls = Append(rec.calls, Call(RemoveSeq[n], TRUE))
                            ELSE rec'.pc = "idle" /\ rec'.ret = "nil"
                    ELSE /\ store' = store
                         /\ rec'.pc = "idle"
                         /\ rec'.ret = "err"
     /\ (gc.pc = "remove" /\ gc' # gc)
          => LET n == Len(gc.calls) + 1
             IN  /\ n <= 3
                 /\ \A i \in 1..(n - 1) : gc.calls[i] = Call(RemoveSeq[i], TRUE)
                 /\ IF fails' = fails
                    THEN /\ store' = Del(store, RemoveSeq[n], GcKey)
                         /\ gc'.err = "none"
                         /\ IF n < 3
                            THEN /\ gc'.pc = "remove"
                                 /\ gc'.calls = Append(gc.calls, Call(RemoveSeq[n], TRUE))
                            ELSE gc'.pc # "remove"
                    ELSE /\ store' = store
                         /\ gc'.pc = "done"
                         /\ gc'.err = "remove"
    ]_vars

\* Reconcile's removal deleted the backend role, failed on the login role
\* and returned the error: the login role and the policy are still there
RemoveOrderReached ==
  /\ rec.pc = "idle"
  /\ rec.ret = "err"
  /\ rec.path = "remove"
  /\ fails = 1
  /\ sa[id1] = Absent
  /\ gc = GcInit
  /\ Triple(store, Key(id1)) = {"login", "policy"}

\* C7: writeToVault writes the policy, then the login role, then the backend
\* role; when rendering or a write fails it returns the error with no later
\* write issued.
WriteOrder ==
  [][(rec.pc = "write" /\ rec' # rec)
       => LET n == Len(rec.calls) + 1
          IN  /\ n <= 3
              /\ \A i \in 1..(n - 1) : rec.calls[i] = Call(WriteSeq[i], TRUE)
              /\ IF fails' = fails
                 THEN /\ store' = Put(store, WriteSeq[n], Key(rec.req),
                                      writeData(WriteSeq[n], rec.req[1], rec.req[2],
                                                rec.annotations))
                      /\ IF n < 3
                         THEN /\ rec'.pc = "write"
                              /\ rec'.calls = Append(rec.calls, Call(WriteSeq[n], TRUE))
                         ELSE rec'.pc = "idle" /\ rec'.ret = "nil"
                 ELSE /\ store' = store
                      /\ rec'.pc = "idle"
                      /\ rec'.ret = "err"
    ]_vars

\* writeToVault wrote the policy, failed on the login role and returned the
\* error: under a key that held nothing, the policy alone is there
WriteOrderReached ==
  /\ rec.pc = "idle"
  /\ rec.ret = "err"
  /\ rec.path = "write"
  /\ fails = 1
  /\ changes = 0
  /\ gc = GcInit
  /\ Triple(store, Key(id1)) = {"policy"}
  /\ store["policy"][Key(id1)] = Obj(policyData(backend, Key(id1)))

\* Reconcile returns nil from removeFromVault or writeToVault
RecReturnsNil == rec.pc \in {"remove", "write"} /\ rec'.pc = "idle" /\ rec'.ret = "nil"

\* C5: when the sweep and Reconcile run concurrently for the same key, then
\* once both have finished and no request is left in the queue, the policy,
\* the login role and the backend role of every identity that exists and is
\* admitted are all in the store.
SweepConverges ==
  (/\ gc.pc = "done"
   /\ gc.err = "none"
   /\ rec.pc = "idle"
   /\ rec.ret = "nil"
   /\ queue = {})
  => \A id \in Ids : Admitted(id, sa[id]) => Triple(store, Key(id)) = Kinds

\* C1: when Reconcile returns nil, the store holds the policy, the login
\* role and the backend role of the request's key if the identity was found
\* and admitEvent held for its annotations, and none of the three otherwise.
ReconcileOutcome ==
  [][RecReturnsNil
       => Triple(store', Key(rec.req)) = IF rec.found /\ rec.admitted THEN Kinds ELSE {}
    ]_vars

\* C8: an attempt of Reconcile that started on a partial triple and whose
\* store calls all succeeded leaves the complete triple if the identity is
\* admitted and none of the three objects otherwise.
ReconcileRepairs ==
  [][(RecReturnsNil /\ rec.start \notin {{}, Kinds})
       => IF rec.admitted
          THEN Triple(store', Key(rec.req)) = Kinds
          ELSE Triple(store', Key(rec.req)) = {}
    ]_vars

\* the number of separators in s
RECURSIVE CountSep(_)
CountSep(s) ==
  IF s = <<>> THEN 0
  ELSE (IF Head(s) = Sep THEN 1 ELSE 0) + CountSep(Tail(s))

PrefixRejected ==
  /\ boot.pc # "off"
       => /\ (/\ boot.file.given
               /\ boot.file.readable
               /\ boot.file.yaml
               /\ boot.file.prefix.set
               /\ Contains(boot.file.prefix.val, Sep)
               /\ boot.pc # "start")
                 => boot.pc = "failed" /\ boot.err = "prefix"
          /\ boot.pc \in {"loaded", "running"} => NoSep(boot.cfg.Prefix)
          /\ \A i \in 1..Len(boot.reconcilers) : NoSep(boot.reconcilers[i].prefix)

\* a readable file that enables a backend and whose prefix holds the
\* separator was refused
PrefixRejectedReached ==
  /\ boot.pc = "failed"
  /\ boot.err = "prefix"
  /\ boot.file.prefix.set
  /\ Contains(boot.file.prefix.val, Sep)
  /\ boot.file.awsEnabled = "true"

\* C13: a role flag of the sidecar that is left empty gives the name
\* <prefix>_<backend>_<namespace>_<service-account>, for the login role and
\* for the backend role or roleset alike: the very key makeKey gives the
\* operator's reconciler of that prefix and backend for that identity.
SidecarNamesAreKeys ==
  sidecar.pc = "named"
  => LET key == makeKey([prefix |-> sidecar.flags.prefix,
                         backend |-> sidecarBackend(sidecar.cmd)],
                        sidecar.claims.Namespace, sidecar.claims.ServiceAccountName)
     IN  /\ sidecar.flags.kubeAuthRole = <<>> => sidecar.kubeAuthRole = key
         /\ sidecar.flags.role = <<>> => sidecar.role = key

SidecarNamesAreKeysReached ==
  /\ sidecar.pc = "named"
  /\ sidecar.flags.kubeAuthRole = <<>>
  /\ sidecar.flags.role = <<>>
  /\ sidecar.cmd = "gcp-sidecar"
  /\ sidecar.claims.Namespace # <<>>
  /\ sidecar.claims.ServiceAccountName # <<>>
  /\ sidecar.claims.Namespace # sidecar.claims.ServiceAccountName
  /\ sidecar.kubeAuthRole = sidecar.role

\* the name <prefix>_<backend>_<namespace>_<name> of the reconciler for a request
NameOf(req) ==
  reconciler.prefix \o <<Sep>> \o reconciler.backend \o <<Sep>> \o req[1]
                    \o <<Sep>> \o req[2]

\* C14: a step of a Reconcile attempt changes the store only under the key
\* <prefix>_<backend>_<namespace>_<name> of its request, and there only the
\* object of the call it makes: the objects under every other key (another
\* identity's, the same identity's under another backend or prefix, anybody
\* else's) are after the step what they were before it.
ReconcileTouchesOwnKey ==
  [][rec' # rec
     => IF rec.pc \in {"remove", "write"}
        THEN \A kind \in Kinds : \A k \in AllKeys :
               store'[kind][k] # store[kind][k]
               => /\ k = NameOf(rec.req)
                  /\ kind = (IF rec.pc = "remove" THEN removeCall(rec.step)
                             ELSE writeCall(rec.step))
        ELSE store' = store]_vars

\* an attempt for n1/x has written its policy and its login role while the
\* other backend's objects for n1/x and the other identity's objects are there
ReconcileTouchesOwnKeyReached ==
  /\ rec.pc = "write"
  /\ rec.req = <<n1, nameX>>
  /\ rec.start = {}
  /\ Len(rec.calls) = 2
  /\ \A i \in 1..2 : rec.calls[i].ok
  /\ Triple(store, NameOf(rec.req)) = {"policy", "login"}
  /\ store["policy"][keyOtherBackend] = Foreign
  /\ store["login"][keyOtherBackend] = Foreign
  /\ Triple(store, Key(<<n2, nameY>>)) = Kinds

\* C15: with an empty rule list AWSRules.allow returns true for every
\* namespace and every role ARN, whatever its account and resource.  (A
\* string that arn.Parse rejects is no ARN: allow answers it with the parse
\* error before it looks at the list, which C22 states.)
EmptyAwsRulesAllow ==
  (eval.pc = "allow" /\ eval.rules = <<>>)
  => IF HasPrefix(eval.roleArn, arnPrefix)
        /\ Len(SplitN(eval.roleArn, ":", arnSections)) = arnSections
     THEN eval.out = [allowed |-> TRUE, err |-> FALSE]
     ELSE eval.out = [allowed |-> FALSE, err |-> TRUE]

EmptyAwsRulesAllowReached ==
  /\ eval.pc = "allow"
  /\ eval.rules = <<>>
  /\ eval.namespace = <<"k">>
  /\ eval.roleArn = arnUser
  /\ eval.out.allowed

\* the bindings annotation is there and is a mapping of at least one resource,
\* each resource to a list of at least one role
ValidBindings(annotations) ==
  /\ gcpBindingsAnnotation \in DOMAIN annotations
  /\ LET b == annotations[gcpBindingsAnnotation]
     IN  /\ b.mapping
         /\ b.entries # <<>>
         /\ \A i \in 1..Len(b.entries) : b.entries[i].roles.list /\ b.entries[i].roles.items # <<>>

HasProject(annotations) ==
  /\ gcpProjectAnnotation \in DOMAIN annotations
  /\ annotations[gcpProjectAnnotation] # <<>>

\* C16: the Project-Binding backend without rules admits every event that
\* has a non-empty project annotation and valid bindings, in every namespace.
NoGcpRulesAdmit ==
  (eval.pc = "admit" /\ eval.rules = <<>>
     /\ HasProject(eval.annotations) /\ ValidBindings(eval.annotations))
  => eval.admitted

NoGcpRulesAdmitReached ==
  /\ eval.pc = "admit"
  /\ eval.rules = <<>>
  /\ eval.namespace = <<"k">>
  /\ HasProject(eval.annotations)
  /\ ValidBindings(eval.annotations)
  /\ Len(eval.annotations[gcpBindingsAnnotation].entries) = 2
  /\ eval.admitted

\* what rule i of the evaluated list answers for the evaluated event
RuleAnswer(i) ==
  gcpRuleAllows(eval.rules[i], eval.namespace,
                Lookup(eval.annotations, gcpProjectAnnotation))

\* rule i ends the evaluation: it allows, or its evaluation fails
RuleDecides(i) == RuleAnswer(i).allowed \/ RuleAnswer(i).err

\* C17: allow on a non-empty list returns what the first rule in list order
\* that decides returns: true when that rule matches, whatever the rules
\* after it are (rules that deny, rules with a malformed pattern), and the
\* failure when that rule's evaluation fails (C23); when no rule of the list
\* matches, allow returns false.
FirstMatchDecides ==
  (eval.pc = "allow" /\ eval.rules # <<>>)
  => IF \E i \in 1..Len(eval.rules) : RuleDecides(i)
     THEN LET first == CHOOSE i \in 1..Len(eval.rules) :
                         RuleDecides(i) /\ \A j \in 1..(i - 1) : ~RuleDecides(j)
          IN  eval.out = [allowed |-> RuleAnswer(first).allowed,
                          err |-> RuleAnswer(first).err]
     ELSE eval.out = [allowed |-> FALSE, err |-> FALSE]

\* the first rule matches and the second, which fails, is never evaluated
FirstMatchDecidesReached ==
  /\ eval.pc = "allow"
  /\ Len(eval.rules) = 2
  /\ RuleAnswer(1).allowed
  /\ RuleAnswer(2).err
  /\ eval.out = [allowed |-> TRUE, err |-> FALSE]

\* s matches at least one of the patterns: the patterns are tried in list
\* order, and a malformed pattern tried before a match ends the rule's
\* evaluation with an error instead
MatchesOne(patterns, s) ==
  \E i \in 1..Len(patterns) :
     /\ ~BadPattern(patterns[i]) /\ GlobMatch(patterns[i], s)
     /\ \A j \in 1..(i - 1) : ~BadPattern(patterns[j])

\* the account ID and the resource of an ARN arn:partition:service:region:account:resource
AccountOf(roleArn) == SplitN(roleArn, ":", arnSections)[5]
ResourceOf(roleArn) == SplitN(roleArn, ":", arnSections)[6]

\* C18: an AWSRule allows a namespace and an ARN exactly when the ARN's
\* account ID is in accountIDs or accountIDs is empty, the namespace matches
\* at least one namespace pattern, and the resource is role/<name> with a
\* name that matches at least one role-name pattern.  A rule without
\* namespace patterns or without role-name patterns allows nothing; empty
\* accountIDs permits every account.
AwsRuleAllowsIff ==
  eval.pc = "allows"
  => LET ar == Head(eval.rules)
         accountOk == \/ ar.AccountIDs = <<>>
                      \/ \E i \in 1..Len(ar.AccountIDs) :
                            ar.AccountIDs[i] = AccountOf(eval.roleArn)
         namespaceOk == MatchesOne(ar.NamespacePatterns, eval.namespace)
         roleOk == /\ HasPrefix(ResourceOf(eval.roleArn), rolePrefix)
                   /\ MatchesOne(ar.RoleNamePatterns,
                                 TrimPrefix(ResourceOf(eval.roleArn), rolePrefix))
     IN  /\ eval.out.allowed <=> (accountOk /\ namespaceOk /\ roleOk)
         /\ ar.NamespacePatterns = <<>> => ~eval.out.allowed
         /\ ar.RoleNamePatterns = <<>> => ~eval.out.allowed
         /\ eval.out.err => ~eval.out.allowed

\* a rule without account IDs allows a role of account 2 by its second
\* namespace pattern
AwsRuleAllowsIffReached ==
  /\ eval.pc = "allows"
  /\ Head(eval.rules).AccountIDs = <<>>
  /\ Head(eval.rules).NamespacePatterns = << <<"m">>, <<"n", "*">> >>
  /\ eval.namespace = n1
  /\ eval.roleArn = arnApp2
  /\ eval.out.allowed

\* C19: a gcpRule allows a namespace and a project exactly when the
\* namespace matches at least one of its namespace patterns and the project
\* is equal, character for character, to an entry of its project list (an
\* entry "*" is the project named "*", no pattern).  A rule without
\* namespace patterns allows nothing, and so does a rule without projects.
GcpRuleAllowsIff ==
  eval.pc = "allows"
  => LET gr == Head(eval.rules)
         project == IF gcpProjectAnnotation \in DOMAIN eval.annotations
                    THEN eval.annotations[gcpProjectAnnotation] ELSE <<>>
         namespaceOk == MatchesOne(gr.NamespacePatterns, eval.namespace)
         projectOk == project \in {gr.Projects[i] : i \in 1..Len(gr.Projects)}
     IN  /\ eval.out.allowed <=> (namespaceOk /\ projectOk)
         /\ gr.NamespacePatterns = <<>> => ~eval.out.allowed
         /\ gr.Projects = <<>> => ~eval.out.allowed
         /\ eval.out.err => ~eval.out.allowed

\* a rule for the projects "*" and p allows project p in namespace n1
GcpRuleAllowsIffReached ==
  /\ eval.pc = "allows"
  /\ Head(eval.rules).Projects = << <<"*">>, <<"p">> >>
  /\ eval.namespace = n1
  /\ Lookup(eval.annotations, gcpProjectAnnotation) = <<"p">>
  /\ eval.out.allowed

\* a pattern of literal characters only
Literal(p) == \A i \in 1..Len(p) : p[i] \notin {"*", "?", "[", "]", "\\"}

\* C20: a namespace pattern is matched against the whole namespace and case
\* counts: a literal pattern matches the identical string only (foo matches
\* neither foobar nor Foo), bar-* matches bar-foo but not barfoo, and foo?
\* matches fooz but not foo.
WholeStringMatch ==
  eval.pc = "matched"
  => /\ ~eval.out.err
     /\ Literal(eval.pattern) => (eval.out.match <=> eval.namespace = eval.pattern)
     /\ (eval.pattern = foo /\ eval.namespace = foobar) => ~eval.out.match
     /\ (eval.pattern = barStar /\ eval.namespace = barFoo) => eval.out.match
     /\ (eval.pattern = barStar /\ eval.namespace = barfoo) => ~eval.out.match
     /\ (eval.pattern = fooAny /\ eval.namespace = fooz) => eval.out.match
     /\ (eval.pattern = fooAny /\ eval.namespace = foo) => ~eval.out.match

WholeStringMatchReached ==
  /\ eval.pc = "matched"
  /\ eval.pattern = barStar
  /\ eval.namespace = barFoo
  /\ eval.out.match

\* C21: whatever the rules, the Project-Binding backend does not admit an
\* event whose project annotation is missing or empty, whose bindings
\* annotation is missing or empty, whose bindings are no mapping, or in
\* whose bindings some resource maps to something that is no list of at
\* least one role.
GcpAdmitNeedsProjectAndBindings ==
  eval.pc = "admit"
  => LET a == eval.annotations
         noProject == gcpProjectAnnotation \notin DOMAIN a \/ a[gcpProjectAnnotation] = <<>>
         noBindings == gcpBindingsAnnotation \notin DOMAIN a
                       \/ a[gcpBindingsAnnotation].entries = <<>>
         noMapping == gcpBindingsAnnotation \in DOMAIN a /\ ~a[gcpBindingsAnnotation].mapping
         badRoles == /\ gcpBindingsAnnotation \in DOMAIN a
                     /\ \E i \in 1..Len(a[gcpBindingsAnnotation].entries) :
                          LET roles == a[gcpBindingsAnnotation].entries[i].roles
                          IN  ~roles.list \/ roles.items = <<>>
     IN  (noProject \/ noBindings \/ noMapping \/ badRoles) => ~eval.admitted

\* without rules, an event with a project whose second resource maps to
\* something that is no list is not admitted
GcpAdmitNeedsProjectAndBindingsReached ==
  /\ eval.pc = "admit"
  /\ eval.rules = <<>>
  /\ HasProject(eval.annotations)
  /\ gcpBindingsAnnotation \in DOMAIN eval.annotations
  /\ eval.annotations[gcpBindingsAnnotation] =
       Mapping(Keyed(<<RoleList(<<StringRole(roleA)>>), NoList>>))
  /\ ~eval.admitted

\* the string parses as an ARN: "arn:" and six sections
IsArn(s) == HasPrefix(s, arnPrefix) /\ Len(SplitN(s, ":", arnSections)) = arnSections

\* C22: the Role-ARN backend's admitEvent answers true or false and nothing
\* else, and it answers false when the role annotation is missing, when it
\* is empty and when its value does not parse as an ARN, for every rule list
\* and for the empty one.
AwsAdmitFailsClosed ==
  eval.pc = "admit"
  => /\ eval.admitted \in BOOLEAN
     /\ awsRoleAnnotation \notin DOMAIN eval.annotations => ~eval.admitted
     /\ (awsRoleAnnotation \in DOMAIN eval.annotations
           /\ ~IsArn(eval.annotations[awsRoleAnnotation])) => ~eval.admitted

\* no rules, and a role annotation that is no ARN
AwsAdmitFailsClosedReached ==
  /\ eval.pc = "admit"
  /\ eval.rules = <<>>
  /\ awsRoleAnnotation \in DOMAIN eval.annotations
  /\ eval.annotations[awsRoleAnnotation] = notArn
  /\ ~eval.admitted

\* the evaluation of the patterns against s meets a malformed pattern: no
\* pattern before it in the list matches s
BadReached(patterns, s) ==
  \E i \in 1..Len(patterns) :
     /\ BadPattern(patterns[i])
     /\ \A j \in 1..(i - 1) : BadPattern(patterns[j]) \/ ~GlobMatch(patterns[j], s)

\* the evaluation of rule i of the evaluated list meets a malformed pattern
RuleFails(i) ==
  LET r == eval.rules[i]
  IN  IF eval.backend = aws
      THEN \/ BadReached(r.NamespacePatterns, eval.namespace)
           \/ /\ HasPrefix(ResourceOf(eval.roleArn), rolePrefix)
              /\ BadReached(r.RoleNamePatterns,
                            TrimPrefix(ResourceOf(eval.roleArn), rolePrefix))
      ELSE BadReached(r.NamespacePatterns, eval.namespace)

\* rule i of the evaluated list matches the evaluated event
RuleMatches(i) ==
  LET r == eval.rules[i]
  IN  /\ ~RuleFails(i)
      /\ MatchesOne(r.NamespacePatterns, eval.namespace)
      /\ IF eval.backend = aws
         THEN /\ r.AccountIDs = <<>>
                 \/ \E k \in 1..Len(r.AccountIDs) : r.AccountIDs[k] = AccountOf(eval.roleArn)
              /\ HasPrefix(ResourceOf(eval.roleArn), rolePrefix)
              /\ MatchesOne(r.RoleNamePatterns,
                            TrimPrefix(ResourceOf(eval.roleArn), rolePrefix))
         ELSE \E k \in 1..Len(r.Projects) :
                 r.Projects[k] = Lookup(eval.annotations, gcpProjectAnnotation)

\* the rules are evaluated on the event: the Role-ARN backend parses the ARN first
RulesEvaluated == eval.backend = aws => IsArn(eval.roleArn)

\* a malformed pattern is met before any rule has matched
MalformedFirst ==
  \E i \in 1..Len(eval.rules) : RuleFails(i) /\ \A j \in 1..(i - 1) : ~RuleMatches(j)

\* C23: when the evaluation of a rule list meets a malformed pattern before
\* a rule has matched, allow returns (false, error) and admitEvent returns
\* false, also when a rule later in the list matches; allow never returns
\* true together with an error.
MalformedPatternDenies ==
  /\ (eval.pc = "allow" /\ RulesEvaluated /\ MalformedFirst)
       => eval.out = [allowed |-> FALSE, err |-> TRUE]
  /\ (eval.pc = "admit" /\ RulesEvaluated /\ MalformedFirst) => ~eval.admitted
  /\ eval.pc = "allow" => ~(eval.out.allowed /\ eval.out.err)

\* the first rule's role-name pattern is malformed, the second rule matches
MalformedPatternDeniesReached ==
  /\ eval.pc = "allow"
  /\ eval.backend = aws
  /\ IsArn(eval.roleArn)
  /\ Len(eval.rules) = 2
  /\ RuleFails(1)
  /\ eval.rules[1].RoleNamePatterns = << <<"[">> >>
  /\ RuleMatches(2)
  /\ eval.out = [allowed |-> FALSE, err |-> TRUE]

SleepPositiveBelowLease ==
  sidecar.pc = "sleeping"
  => (0 < sidecar.sleep /\ sidecar.sleep < sidecar.leaseDuration)

\* C26: the next fetch is scheduled after a third of the lease, with the
\* jitter: between a quarter and five twelfths of it, for a lease of one
\* hour between 15 and 25 minutes.
FetchAfterThirdOfLease ==
  (sidecar.pc = "sleeping" /\ sidecar.leaseDuration = leaseHour)
  => /\ 4 * sidecar.sleep >= sidecar.leaseDuration
     /\ 12 * sidecar.sleep < 5 * sidecar.leaseDuration

\* C27: the login role that a Reconcile attempt writes for namespace and
\* name is written under the key <prefix>_<backend>_<namespace>_<name>, is
\* bound to that one name and that one namespace and to no other, carries
\* the two policies "default" and the key, and has the token TTL of 900
\* seconds.
LoginRoleBinding ==
  [][(rec.pc = "write" /\ rec.step = 2 /\ rec'.step = 3)
     => LET K == NameOf(rec.req)
            written == store'["login"][K]
        IN  /\ written.present
            /\ written.data.bound_service_account_names = <<rec.req[2]>>
            /\ written.data.bound_service_account_namespaces = <<rec.req[1]>>
            /\ written.data.policies = <<<<"d", "e", "f", "a", "u", "l", "t">>, K>>
            /\ written.data.ttl = 900
            /\ \A k \in AllKeys \ {K} : store'["login"][k] = store["login"][k]]_vars

\* the login role of n1/x, absent before the attempt, has been written
LoginRoleBindingReached ==
  /\ rec.pc = "write"
  /\ rec.step = 3
  /\ rec.req = <<n1, nameX>>
  /\ "login" \notin rec.start
  /\ store["login"][Key(rec.req)].present
  /\ store["login"][Key(rec.req)].data.bound_service_account_names = <<nameX>>

\* the paths of the rendered policy
PolicyPaths == {eval.out[i].path : i \in 1..Len(eval.out)}

\* the policy's path under the mount for a kind of secret and a key
PathFor(kind, K) == eval.path \o <<"/">> \o kind \o <<"/">> \o K

\* C28: the policy rendered for key K has a stanza for each of the paths
\* <path>/creds/K and <path>/sts/K (Role-ARN), <path>/token/K, <path>/key/K
\* and <path>/roleset/K (Project-Binding) and for no other path; roleset
\* gets the capability read alone, the others create, read, update, delete
\* and list.  Every path of it lies under the backend's mount, has K and
\* no other key as its last segment, and is no pattern.
PolicyNamesOwnKey ==
  eval.pc = "rendered"
  => LET K == eval.name
         creds == <<"c", "r", "e", "d", "s">>
         sts == <<"s", "t", "s">>
         token == <<"t", "o", "k", "e", "n">>
         key == <<"k", "e", "y">>
         roleset == <<"r", "o", "l", "e", "s", "e", "t">>
     IN  /\ PolicyPaths = IF eval.backend = aws
                          THEN {PathFor(creds, K), PathFor(sts, K)}
                          ELSE {PathFor(token, K), PathFor(key, K), PathFor(roleset, K)}
         /\ Len(eval.out) = Cardinality(PolicyPaths)
         /\ \A i \in 1..Len(eval.out) :
              /\ eval.out[i].capabilities =
                   IF eval.out[i].path = PathFor(roleset, K) THEN {"read"}
                   ELSE {"create", "read", "update", "delete", "list"}
              /\ HasPrefix(eval.out[i].path, eval.path \o <<"/">>)
              /\ ~Contains(eval.out[i].path, "*")
              /\ LET segments == Split(eval.out[i].path, "/")
                 IN  segments[Len(segments)] = K

\* the Project-Binding policy for vkcc_gcp_n_x under the mount aws/b
PolicyNamesOwnKeyReached ==
  /\ eval.pc = "rendered"
  /\ eval.backend = gcp
  /\ eval.path = <<"a", "w", "s", "/", "b">>
  /\ eval.name = makeKey([prefix |-> vkcc, backend |-> gcp], <<"n">>, <<"x">>)
  /\ Len(eval.out) = 3

\* C29: writeRole called twice with the same key and the same annotations
\* writes the same role definition both times, for the Project-Binding
\* backend the text of the bindings included, so that the stored role is
\* unchanged by the second call.
WriteRoleIdempotent ==
  Len(eval.writes) = 2 => eval.writes[1] = eval.writes[2]

\* C30: the backend role that a Reconcile attempt of the Role-ARN backend
\* writes holds exactly one role ARN, the ARN of the annotations that the
\* lookup at the start of the attempt returned and that admitEvent allowed
\* in this attempt, with the credential type assumed_role and the default
\* TTL in seconds.
WrittenArnIsAdmittedArn ==
  [][(rec.pc = "write" /\ rec.step = 3 /\ rec'.ret = "nil")
     => LET K == NameOf(rec.req)
            written == store'["role"][K]
            arn == Lookup(rec.annotations, awsRoleAnnotation)
        IN  /\ written.present
            /\ Len(written.data.role_arns) = 1
            /\ written.data.role_arns[1] = arn
            /\ rec.admitted
            /\ admitEvent(backend, rec.req[1], rec.req[2], rec.annotations)
            /\ arn # <<>>
            /\ written.data.credential_type = "assumed_role"
            /\ written.data.default_sts_ttl = 15 * 60]_vars

\* an attempt for n1/x has written the backend role with the ARN it
\* admitted, while the service account carries another annotation by now
WrittenArnIsAdmittedArnReached ==
  /\ rec.pc = "idle"
  /\ rec.path = "write"
  /\ rec.ret = "nil"
  /\ store["role"][Key(<<n1, nameX>>)].present
  /\ Len(store["role"][Key(<<n1, nameX>>)].data.role_arns) = 1
  /\ sa[<<n1, nameX>>].exists
  /\ store["role"][Key(<<n1, nameX>>)].data.role_arns[1]
       # Lookup(sa[<<n1, nameX>>].annotations, awsRoleAnnotation)

\* C31: a delete of a backend role, login role or policy that is not in
\* the store succeeds and changes nothing: a step of removeFromVault, in
\* Reconcile or in the sweep, on a key that holds none of the three objects
\* leaves the store as it is and, unless the call itself fails, goes on to
\* the next delete or returns nil; a removal of Reconcile that returns nil
\* leaves none of the three objects, so that a second removal finds and
\* leaves the same store.
RemovalIdempotent ==
  [][/\ (rec.pc = "remove" /\ rec' # rec /\ Triple(store, Key(rec.req)) = {})
          => /\ store' = store
             /\ fails' = fails
                  => IF rec.step < 3 THEN rec'.pc = "remove"
                     ELSE rec'.pc = "idle" /\ rec'.ret = "nil"
     /\ (gc.pc = "remove" /\ gc' # gc /\ Triple(store, GcKey) = {})
          => /\ store' = store
             /\ fails' = fails => gc'.err = "none"
     /\ (rec.pc = "remove" /\ rec'.pc = "idle" /\ rec'.ret = "nil")
          => Triple(store', Key(rec.req)) = {}
    ]_vars

\* a removal of Reconcile that began on a key holding nothing has made its
\* first two deletes without an error and without a change
RemovalIdempotentReached ==
  /\ rec.pc = "remove"
  /\ rec.step = 3
  /\ rec.start = {}
  /\ rec.calls = <<Call("role", TRUE), Call("login", TRUE)>>
  /\ Triple(store, Key(rec.req)) = {}

\* C32: a renewal attempt that fails leaves the sidecar running and
\* waiting for the backoff interval, which starts at the first interval,
\* doubles with every further failure in a row, never exceeds the maximum
\* interval and does not depend on the lease (it is not the jitter
\* formula); after every failure another attempt is made, without end.
RenewalRetriesForever ==
  /\ [][(sidecar.pc = "renewing" /\ sidecar'.pc \notin {"renewing", "active"})
          => /\ sidecar'.pc = "failed"
             /\ sidecar'.sleep = IF sidecar.interval = 0 THEN backoffBase
                                 ELSE IF sidecar.interval = backoffMax THEN backoffMax
                                 ELSE 2 * sidecar.interval
             /\ sidecar'.sleep > 0
             /\ sidecar'.sleep <= backoffMax]_vars
  /\ [](sidecar.pc \in {"active", "renewing", "failed"})
  /\ (sidecar.pc = "failed") ~> (sidecar.pc = "renewing")

\* after enough failures in a row the sidecar waits for the maximum
\* interval, whatever the lease it holds
RenewalRetriesForeverReached ==
  /\ sidecar.pc = "failed"
  /\ sidecar.interval = backoffMax
  /\ sidecar.sleep = backoffMax
  /\ sidecar.leaseDuration = leaseHour
\* C33: once nothing is left to do (no request queued, no attempt running,
\* the sweep over), so that every failed attempt has been delivered again
\* and has succeeded in the end, the policy, the login role and the backend
\* role of every identity that is admitted are all in the store, and none
\* of the three is left for an identity that is not admitted any more and
\* whose last attempt was a removal that returned nil.
TripleSettles ==
  (rec.pc = "idle" /\ queue = {} /\ gc.pc = "done")
    => \A id \in Live :
         /\ Admitted(id, sa[id]) => Triple(store, Key(id)) = Kinds
         /\ (~Admitted(id, sa[id]) /\ rec.path = "remove" /\ rec.ret = "nil")
              => Triple(store, Key(id)) = {}

\* C34: when the sweep has returned nil and nothing else has touched the
\* store or the service accounts meanwhile (no orchestrator change, no
\* Reconcile attempt), then every key that parseKey decodes and that is
\* still listed among the backend roles, the login roles or the policies
\* belongs to a service account that exists and is admitted; keys that
\* were in only one or two of the lists before the sweep included.
SweepLeavesNoOrphan ==
  (gc.pc = "done" /\ gc.err = "none" /\ changes = 0 /\ rec = RecIdle)
    => \A k \in AllKeys :
         (parseKey(reconciler, k).parsed /\ Triple(store, k) # {})
           => hasServiceAccount(sa, parseKey(reconciler, k).namespace,
                                parseKey(reconciler, k).name)

\* the sweep has gone through the three lists and returned nil; the key of
\* n2/y, which held at least its policy and has no service account, and
\* the key of n1/x, whose service account does not exist, hold nothing
SweepLeavesNoOrphanReached ==
  /\ gc.pc = "done"
  /\ gc.err = "none"
  /\ gc.entered = {1, 2, 3}
  /\ changes = 0
  /\ rec = RecIdle
  /\ ~sa[id1].exists
  /\ Triple(store, Key(id1)) = {}
  /\ Triple(store, Key(id2)) = {}
  /\ \E k \in ForeignKeys : Triple(store, k) # {}

\* the number of occurrences of the character c in s
CountChar(s, c) == Cardinality({i \in 1..Len(s) : s[i] = c})

\* t occurs in s
HasInfix(s, t) ==
  \E i \in 0..(Len(s) - Len(t)) : \A j \in 1..Len(t) : s[i + j] = t[j]

\* the names of a list of roles between quotes, separated by a comma and a space
RECURSIVE QuotedNames(_)
QuotedNames(items) ==
  IF items = <<>> THEN <<>>
  ELSE <<"\"">> \o Head(items).val \o <<"\"">>
         \o (IF Len(items) = 1 THEN <<>> ELSE <<",", " ">>)
         \o QuotedNames(Tail(items))

\* the number of roles of all the resources of the bindings
RECURSIVE NumRoles(_)
NumRoles(entries) ==
  IF entries = <<>> THEN 0
  ELSE Len(Head(entries).roles.items) + NumRoles(Tail(entries))

\* C35: the bindings text written for annotations that are admitted has
\* one resource block for each resource of the bindings mapping, and the
\* block of a resource lists every role of its list, in the order of the
\* list: as many names are listed as the mapping has roles, and no listed
\* name is empty.
BindingsListEveryRole ==
  (eval.pc = "in" /\ eval.backend = gcp /\ eval.writes # <<>> /\ ~eval.writes[1].err)
    => LET text == eval.writes[1].data.bindings
           entries == eval.annotations[gcpBindingsAnnotation].entries
       IN  /\ CountChar(text, "{") = Len(entries)
           /\ CountChar(text, "\"") = 2 * Len(entries) + 2 * NumRoles(entries)
           /\ ~HasInfix(text, <<"\"", "\"">>)
           /\ \A i \in 1..Len(entries) :
                (\A j \in 1..Len(entries[i].roles.items) : entries[i].roles.items[j].str)
                  => HasInfix(text, <<"\"">> \o entries[i].resource \o <<"\"", " ", "{", "\n">>
                                      \o <<" ", " ", "r", "o", "l", "e", "s", " ", "=", " ", "[">>
                                      \o QuotedNames(entries[i].roles.items) \o <<"]", "\n", "}">>)

\* C36: with Reconcile attempts running one at a time and no sweep, from a
\* store that holds nothing under the key, every store state, those left
\* by an attempt that was aborted at any step included, has the backend
\* role only together with the login role, and the login role only
\* together with the policy.
TripleNested ==
  \A id \in Live :
    /\ store["role"][Key(id)].present => store["login"][Key(id)].present
    /\ store["login"][Key(id)].present => store["policy"][Key(id)].present

\* a removal deleted the backend role, failed on the login role and
\* returned the error: the login role and the policy are left
TripleNestedReached ==
  /\ rec.pc = "idle"
  /\ rec.path = "remove"
  /\ rec.ret = "err"
  /\ Triple(store, Key(id1)) = {"login", "policy"}

\* C37 as stated: for every rule list, the empty one included, the
\* Role-ARN backend's admitEvent returns true only for an annotation that
\* parses as an ARN whose resource is role/<roleName>.
AdmitsOnlyRoleArns ==
  (eval.pc = "admit" /\ eval.backend = aws /\ eval.admitted)
    => /\ IsArn(eval.roleArn)
       /\ HasPrefix(ResourceOf(eval.roleArn), rolePrefix)

\* C37: the Role-ARN backend's admitEvent returns true only for an
\* annotation that parses as an ARN; under a rule list that is not empty
\* the ARN's resource is then role/<roleName>, and an ARN naming any other
\* kind of resource is not admitted; under the empty rule list every
\* annotation that parses as an ARN is admitted, whatever its resource.
AdmitsOnlyRoleArnsUnderRules ==
  (eval.pc = "admit" /\ eval.backend = aws)
    => /\ eval.admitted => IsArn(eval.roleArn)
       /\ (eval.admitted /\ eval.rules # <<>>)
            => HasPrefix(ResourceOf(eval.roleArn), rolePrefix)
       /\ (eval.rules = <<>> /\ IsArn(eval.roleArn)) => eval.admitted

\* a rule whose patterns match the namespace and the name app, and the
\* ARN of the user app: not admitted
AdmitsOnlyRoleArnsUnderRulesReached ==
  /\ eval.pc = "admit"
  /\ eval.backend = aws
  /\ eval.rules = <<AWSRule(<< <<"n", "*">> >>, << <<"a", "p", "*">> >>, <<>>)>>
  /\ MatchesOne(eval.rules[1].NamespacePatterns, eval.namespace)
  /\ eval.roleArn = arnUser
  /\ ~eval.admitted

\* C38: when the lookup of the service accounts or a delete of the removal
\* fails during the sweep, garbageCollect and Start return that error at
\* once: the failing step changes nothing in the store, and the sweep has
\* ended with the error in the list it was in; from then on the sweep
\* makes no step, so that it checks and removes no further key of that
\* list or of a later list, and only Reconcile changes the store.
SweepStopsAtError ==
  [][/\ (gc.pc \in {"key", "remove"} /\ gc' # gc /\ fails' # fails)
          => /\ gc'.pc = "done"
             /\ gc'.err = IF gc.pc = "key" THEN "lookup" ELSE "remove"
             /\ gc'.li = gc.li
             /\ gc'.entered = gc.entered
             /\ store' = store
     /\ gc.pc = "done"
          => /\ gc' = gc
             /\ store' # store => rec.pc \in {"remove", "write"}
    ]_vars

\* the lookup failed on a key of the first list: Start has returned the
\* error without entering the other lists, and the policy of n2/y, which
\* has no service account, is still there
SweepStopsAtErrorReached ==
  /\ gc.pc = "done"
  /\ gc.err = "lookup"
  /\ gc.entered = {1}
  /\ rec = RecIdle
  /\ changes = 0
  /\ store["policy"][Key(id2)].present

\* C39: when the lookup of the service account fails with an error other
\* than not found, Reconcile returns the error without having issued any
\* store call: no write, no delete, the store is as before the attempt and
\* the request is still to be served.
LookupErrorTouchesNothing ==
  [][(rec.pc = "idle" /\ rec' # rec /\ fails' # fails)
       => /\ rec'.pc = "idle"
          /\ rec'.ret = "err"
          /\ rec'.path = "lookup"
          /\ rec'.calls = <<>>
          /\ store' = store
          /\ queue' = queue
    ]_vars

\* the lookup for n1/x failed: the attempt returned the error, the whole
\* triple of the key is in the store as before and the request is queued
LookupErrorTouchesNothingReached ==
  /\ rec.pc = "idle"
  /\ rec.ret = "err"
  /\ rec.path = "lookup"
  /\ fails = 1
  /\ id1 \in queue
  /\ gc = GcInit
  /\ Triple(store, Key(id1)) = Kinds

=============================================================================
